---- MODULE Spec2Model ----
(***************************************************************************)
(* Model of the user-attribute synchronisation plugin: the sync job        *)
(* (runSync), the field schema synchroniser (SyncFields and its helpers),  *)
(* the per-pass FieldCache over the KVStore client, the value builder      *)
(* (buildPropertyValues / SyncUsers) and the file provider.                *)
(*                                                                         *)
(* Conventions.  A Go string is a sequence of one-character strings, so    *)
(* "" is << >>.  A remote identifier (model.NewId, PropertyField.ID) is a  *)
(* positive integer and the empty identifier "" is NoId = 0.  A decoded    *)
(* JSON value (interface{}) is a record [t, s, l] with t the dynamic type. *)
(* A Go map is a function whose DOMAIN is the set of keys present.         *)
(***************************************************************************)
EXTENDS Integers, Sequences, FiniteSets, TLC

\* ------------------------------------------------------------------------
\* Bounds of the model
\* ------------------------------------------------------------------------

\* number of sync passes the job scheduler starts
MaxPasses == 2

\* number of times the data file is rewritten by its owner
MaxFileEdits == 1

\* number of external calls (source, remote API, KV store) that fail
MaxFailures == 2

\* length of the argument lists the pure functions are applied to
MaxLen == 2

\* ------------------------------------------------------------------------
\* Basic values
\* ------------------------------------------------------------------------

NoId == 0

EmptyMap == [x \in {} |-> 0]

Put(m, k, v) == (k :> v) @@ m

Lookup(m, k, default) == IF k \in DOMAIN m THEN m[k] ELSE default

Range(s) == {s[i] : i \in DOMAIN s}

\* interface{} values produced by json.Unmarshal
JNil == [t |-> "nil", s |-> << >>, l |-> << >>]

JStr(str) == [t |-> "string", s |-> str, l |-> << >>]

JNum(str) == [t |-> "number", s |-> str, l |-> << >>]

JList(items) == [t |-> "list", s |-> << >>, l |-> items]

\* the field types of model.PropertyFieldType used by the plugin
PropertyFieldTypeText == "text"

PropertyFieldTypeDate == "date"

PropertyFieldTypeMultiselect == "multiselect"

\* ------------------------------------------------------------------------
\* types.go: inferFieldType, toDisplayName
\* ------------------------------------------------------------------------

Digits == {"0", "1", "2", "3", "4", "5", "6", "7", "8", "9"}

\* ^\d{4}-(0[1-9]|1[0-2])-(0[1-9]|[12][0-9]|3[01])$
datePatternRegex(v) ==
    /\ Len(v) = 10
    /\ \A i \in 1..4 : v[i] \in Digits
    /\ v[5] = "-"
    /\ \/ v[6] = "0" /\ v[7] \in Digits \ {"0"}
       \/ v[6] = "1" /\ v[7] \in {"0", "1", "2"}
    /\ v[8] = "-"
    /\ \/ v[9] = "0" /\ v[10] \in Digits \ {"0"}
       \/ v[9] \in {"1", "2"} /\ v[10] \in Digits
       \/ v[9] = "3" /\ v[10] \in {"0", "1"}

\* variant that takes an empty list for text
inferFieldType_EmptyListText(value) ==
    IF value.t = "nil" THEN PropertyFieldTypeText
    ELSE IF value.t = "list" /\ value.l # << >> THEN PropertyFieldTypeMultiselect
    ELSE IF value.t = "string"
         THEN IF datePatternRegex(value.s) THEN PropertyFieldTypeDate
              ELSE PropertyFieldTypeText
    ELSE PropertyFieldTypeText

inferFieldType(value) ==
    IF value.t = "nil" THEN PropertyFieldTypeText
    ELSE IF value.t = "list" THEN PropertyFieldTypeMultiselect
    ELSE IF value.t = "string"
         THEN IF datePatternRegex(value.s) THEN PropertyFieldTypeDate
              ELSE PropertyFieldTypeText
    ELSE PropertyFieldTypeText

LowerLetters == <<"a", "b", "c", "d", "e", "f", "g", "h", "i", "j", "k", "l", "m",
                  "n", "o", "p", "q", "r", "s", "t", "u", "v", "w", "x", "y", "z">>

UpperLetters == <<"A", "B", "C", "D", "E", "F", "G", "H", "I", "J", "K", "L", "M",
                  "N", "O", "P", "Q", "R", "S", "T", "U", "V", "W", "X", "Y", "Z">>

\* unicode.ToUpper on the letters the model uses
ToUpper(c) ==
    IF \E i \in 1..26 : LowerLetters[i] = c
    THEN UpperLetters[CHOOSE i \in 1..26 : LowerLetters[i] = c]
    ELSE c

\* strings.FieldsFunc(name, r == '_' || r == '-'): the maximal runs of
\* non-separator characters, in order
RECURSIVE FieldsFunc(_, _, _)
FieldsFunc(name, cur, acc) ==
    IF name = << >>
    THEN IF cur = << >> THEN acc ELSE Append(acc, cur)
    ELSE IF Head(name) \in {"_", "-"}
         THEN FieldsFunc(Tail(name), << >>, IF cur = << >> THEN acc ELSE Append(acc, cur))
         ELSE FieldsFunc(Tail(name), Append(cur, Head(name)), acc)

\* strings.Join(words, " ")
RECURSIVE Join(_)
Join(words) ==
    IF words = << >> THEN << >>
    ELSE IF Len(words) = 1 THEN Head(words)
    ELSE Head(words) \o <<" ">> \o Join(Tail(words))

toDisplayName(name) ==
    IF name = << >> THEN << >>
    ELSE LET words == FieldsFunc(name, << >>, << >>)
             titled == [i \in DOMAIN words |->
                           <<ToUpper(words[i][1])>> \o Tail(words[i])]
         IN  Join(titled)

\* ------------------------------------------------------------------------
\* field_discovery.go: discoverFields
\* ------------------------------------------------------------------------

email == <<"e", "m", "a", "i", "l">>

\* variant that does not exclude "email"
discoverFields_WithEmail(us) ==
    LET names == UNION {DOMAIN us[i] : i \in DOMAIN us}
        hits(n) == {i \in DOMAIN us : n \in DOMAIN us[i] /\ us[i][n].t # "nil"}
        first(n) == CHOOSE i \in hits(n) : \A j \in hits(n) : i <= j
    IN  [n \in {m \in names : hits(m) # {}} |-> us[first(n)][n]]

\* the map fieldName -> first non-nil value in record order, "email" excluded
discoverFields(us) ==
    LET names == (UNION {DOMAIN us[i] : i \in DOMAIN us}) \ {email}
        hits(n) == {i \in DOMAIN us : n \in DOMAIN us[i] /\ us[i][n].t # "nil"}
        first(n) == CHOOSE i \in hits(n) : \A j \in hits(n) : i <= j
    IN  [n \in {m \in names : hits(m) # {}} |-> us[first(n)][n]]

\* The loop of discoverFields as it runs: the records in order, and in each
\* record every key (a record carries a key once, so the order of the keys
\* within a record does not matter); fields is the map built so far.

\* variant that overwrites the sample with every later non-nil value
RECURSIVE discoverFieldsScan_KeepLast(_, _, _)
discoverFieldsScan_KeepLast(us, i, fields) ==
    IF i > Len(us) THEN fields
    ELSE LET taken == {n \in DOMAIN us[i] \ {email} : us[i][n].t # "nil"}
         IN  discoverFieldsScan_KeepLast(
                 us, i + 1,
                 [n \in DOMAIN fields \cup taken |->
                     IF n \in taken THEN us[i][n] ELSE fields[n]])

RECURSIVE discoverFieldsScan(_, _, _)
discoverFieldsScan(us, i, fields) ==
    IF i > Len(us) THEN fields
    ELSE LET taken == {n \in DOMAIN us[i] \ {email} : us[i][n].t # "nil"}
         IN  discoverFieldsScan(
                 us, i + 1,
                 [n \in DOMAIN fields \cup taken |->
                     IF n \in DOMAIN fields THEN fields[n] ELSE us[i][n]])

\* ------------------------------------------------------------------------
\* kvstore.go: the KVStore client over the plugin KV API
\*   kvM : key field_mapping_<name>  -> stored bytes (the field ID)
\*   kvO : key field_options_<name>  -> stored bytes (JSON object)
\* getErr / setErr say whether the underlying KV.Get / KV.Set call fails.
\* ------------------------------------------------------------------------

\* json.Marshal of a map[string]string: the object as its set of members
Marshal(options) == {<<n, options[n]>> : n \in DOMAIN options}

\* json.Unmarshal of such an object into a map[string]string
Unmarshal(data) ==
    [n \in {p[1] : p \in data} |-> (CHOOSE p \in data : p[1] = n)[2]]

Client_SaveFieldMapping(kvM, fieldName, fieldID, setErr) ==
    IF setErr THEN [kvM |-> kvM, err |-> TRUE]
    ELSE [kvM |-> Put(kvM, fieldName, fieldID), err |-> FALSE]

\* every failure of KV.Get is reported as "no mapping" with a nil error
\* variant that never finds a stored mapping
Client_GetFieldMapping_Lost(kvM, fieldName, getErr) ==
    [id |-> NoId, err |-> FALSE]

Client_GetFieldMapping(kvM, fieldName, getErr) ==
    IF getErr THEN [id |-> NoId, err |-> FALSE]
    ELSE [id |-> Lookup(kvM, fieldName, NoId), err |-> FALSE]

Client_SaveFieldOptions(kvO, fieldName, options, setErr) ==
    IF setErr THEN [kvO |-> kvO, err |-> TRUE]
    ELSE [kvO |-> Put(kvO, fieldName, Marshal(options)), err |-> FALSE]

Client_GetFieldOptions(kvO, fieldName, getErr) ==
    IF getErr THEN [options |-> EmptyMap, err |-> FALSE]
    ELSE IF fieldName \notin DOMAIN kvO THEN [options |-> EmptyMap, err |-> FALSE]
    ELSE [options |-> Unmarshal(kvO[fieldName]), err |-> FALSE]

\* SaveLastSyncTime(t): stores the timestamp under last_sync_timestamp
Client_SaveLastSyncTime(last, t, setErr) ==
    IF setErr THEN [last |-> last, err |-> TRUE]
    ELSE [last |-> t, err |-> FALSE]

\* ------------------------------------------------------------------------
\* field cache (fieldCacheImpl): read-through / write-through over KVStore
\*   c.fieldMappings : field name -> field ID
\*   c.fieldOptions  : field name -> (option name -> option ID)
\* Each operation returns the new cache and store, its results, and
\* read: whether the backing store was read.
\* ------------------------------------------------------------------------

NewFieldCache == [fieldMappings |-> EmptyMap, fieldOptions |-> EmptyMap]

\* variant that does not cache a "not found" result
GetFieldID_NoCacheEmpty(c, kvM, fieldName, getErr) ==
    IF fieldName \in DOMAIN c.fieldMappings
    THEN [id |-> c.fieldMappings[fieldName], err |-> FALSE, c |-> c, read |-> FALSE]
    ELSE LET r == Client_GetFieldMapping(kvM, fieldName, getErr)
         IN  IF r.err THEN [id |-> NoId, err |-> TRUE, c |-> c, read |-> TRUE]
             ELSE [id |-> r.id, err |-> FALSE,
                   c |-> IF r.id = NoId THEN c
                         ELSE [c EXCEPT !.fieldMappings = Put(@, fieldName, r.id)],
                   read |-> TRUE]

GetFieldID(c, kvM, fieldName, getErr) ==
    IF fieldName \in DOMAIN c.fieldMappings
    THEN [id |-> c.fieldMappings[fieldName], err |-> FALSE, c |-> c, read |-> FALSE]
    ELSE LET r == Client_GetFieldMapping(kvM, fieldName, getErr)
         IN  IF r.err THEN [id |-> NoId, err |-> TRUE, c |-> c, read |-> TRUE]
             ELSE [id |-> r.id, err |-> FALSE,
                   c |-> [c EXCEPT !.fieldMappings = Put(@, fieldName, r.id)],
                   read |-> TRUE]

GetOptionID(c, kvO, fieldName, optionName, getErr) ==
    IF fieldName \in DOMAIN c.fieldOptions
    THEN [id |-> Lookup(c.fieldOptions[fieldName], optionName, NoId),
          err |-> FALSE, c |-> c, read |-> FALSE]
    ELSE LET r == Client_GetFieldOptions(kvO, fieldName, getErr)
         IN  IF r.err THEN [id |-> NoId, err |-> TRUE, c |-> c, read |-> TRUE]
             ELSE [id |-> Lookup(r.options, optionName, NoId), err |-> FALSE,
                   c |-> [c EXCEPT !.fieldOptions = Put(@, fieldName, r.options)],
                   read |-> TRUE]

\* The cache methods against the KVStore interface (c.store may be any
\* implementation): r is what c.store.GetFieldMapping(fieldName) or
\* c.store.GetFieldOptions(fieldName) returns when the method calls it.

\* variant that reports a missing mapping as an error
GetFieldIDOver_NotFoundIsError(c, r, fieldName) ==
    IF fieldName \in DOMAIN c.fieldMappings
    THEN [id |-> c.fieldMappings[fieldName], err |-> FALSE, c |-> c, read |-> FALSE]
    ELSE IF r.err \/ r.id = NoId
         THEN [id |-> NoId, err |-> TRUE, c |-> c, read |-> TRUE]
         ELSE [id |-> r.id, err |-> FALSE,
               c |-> [c EXCEPT !.fieldMappings = Put(@, fieldName, r.id)],
               read |-> TRUE]

GetFieldIDOver(c, r, fieldName) ==
    IF fieldName \in DOMAIN c.fieldMappings
    THEN [id |-> c.fieldMappings[fieldName], err |-> FALSE, c |-> c, read |-> FALSE]
    ELSE IF r.err THEN [id |-> NoId, err |-> TRUE, c |-> c, read |-> TRUE]
         ELSE [id |-> r.id, err |-> FALSE,
               c |-> [c EXCEPT !.fieldMappings = Put(@, fieldName, r.id)],
               read |-> TRUE]

GetOptionIDOver(c, r, fieldName, optionName) ==
    IF fieldName \in DOMAIN c.fieldOptions
    THEN [id |-> Lookup(c.fieldOptions[fieldName], optionName, NoId),
          err |-> FALSE, c |-> c, read |-> FALSE]
    ELSE IF r.err THEN [id |-> NoId, err |-> TRUE, c |-> c, read |-> TRUE]
         ELSE [id |-> Lookup(r.options, optionName, NoId), err |-> FALSE,
               c |-> [c EXCEPT !.fieldOptions = Put(@, fieldName, r.options)],
               read |-> TRUE]

\* variant that updates the cache only after the store accepted the write
SaveFieldMapping_StoreFirst(c, kvM, fieldName, fieldID, setErr) ==
    LET r == Client_SaveFieldMapping(kvM, fieldName, fieldID, setErr)
    IN  [c |-> IF r.err THEN c
               ELSE [c EXCEPT !.fieldMappings = Put(@, fieldName, fieldID)],
         kvM |-> r.kvM, err |-> r.err]

SaveFieldMapping(c, kvM, fieldName, fieldID, setErr) ==
    LET r == Client_SaveFieldMapping(kvM, fieldName, fieldID, setErr)
    IN  [c |-> [c EXCEPT !.fieldMappings = Put(@, fieldName, fieldID)],
         kvM |-> r.kvM, err |-> r.err]

SaveFieldOptions(c, kvO, fieldName, options, setErr) ==
    LET optionsCopy == [n \in DOMAIN options |-> options[n]]
        r == Client_SaveFieldOptions(kvO, fieldName, options, setErr)
    IN  [c |-> [c EXCEPT !.fieldOptions = Put(@, fieldName, optionsCopy)],
         kvO |-> r.kvO, err |-> r.err]

\* the same with the option maps as Go maps, that is, references into a heap:
\* heap : reference -> map[string]string, c.fieldOptions : name -> reference

\* the reference of the caller's map
CallerRef == 1

\* a reference not in use (make(map[string]string))
NewRef(heap) == CHOOSE r \in 1..(Cardinality(DOMAIN heap) + 1) : r \notin DOMAIN heap

\* the cache with the maps its references point to
Deref(heap, c) ==
    [c EXCEPT !.fieldOptions = [n \in DOMAIN @ |-> heap[@[n]]]]

\* the heap without the maps nothing refers to any more
Collect(heap, c) ==
    [r \in DOMAIN heap \cap ({CallerRef} \cup Range(c.fieldOptions)) |-> heap[r]]

\* variant that keeps the caller's map instead of a copy
SaveFieldOptionsRef_Alias(heap, c, kvO, fieldName, options, setErr) ==
    LET r == Client_SaveFieldOptions(kvO, fieldName, heap[options], setErr)
    IN  [heap |-> heap,
         c |-> [c EXCEPT !.fieldOptions = Put(@, fieldName, options)],
         kvO |-> r.kvO, err |-> r.err]

\* SaveFieldOptions with the maps as references: options is the reference
\* of the caller's map, optionsCopy a new map with the same entries
SaveFieldOptionsRef(heap, c, kvO, fieldName, options, setErr) ==
    LET optionsCopy == NewRef(heap)
        r == Client_SaveFieldOptions(kvO, fieldName, heap[options], setErr)
    IN  [heap |-> Put(heap, optionsCopy,
                      [n \in DOMAIN heap[options] |-> heap[options][n]]),
         c |-> [c EXCEPT !.fieldOptions = Put(@, fieldName, optionsCopy)],
         kvO |-> r.kvO, err |-> r.err]

\* ------------------------------------------------------------------------
\* The remote attribute store (Property API of the host server)
\*   remote : field ID -> [Name, Type, hasOptions, options]
\* options is the list under Attrs["options"]; each entry is a
\* map[string]interface{} modelled as [id |-> [t, v], name |-> [t, v]].
\* Field names are unique within the group, so a create with a name that is
\* already taken is rejected.  apiErr says whether the call itself fails.
\* ------------------------------------------------------------------------

OptEntry(id, name) ==
    [id |-> [t |-> "string", v |-> id], name |-> [t |-> "string", v |-> name]]

CreatePropertyField(remote, newID, field, apiErr) ==
    IF apiErr \/ \E i \in DOMAIN remote : remote[i].Name = field.Name
    THEN [remote |-> remote, id |-> NoId, err |-> TRUE]
    ELSE [remote |-> Put(remote, newID, field), id |-> newID, err |-> FALSE]

GetPropertyField(remote, fieldID, apiErr) ==
    IF apiErr \/ fieldID \notin DOMAIN remote
    THEN [field |-> [Name |-> << >>, Type |-> "", hasOptions |-> FALSE, options |-> << >>],
          err |-> TRUE]
    ELSE [field |-> remote[fieldID], err |-> FALSE]

UpdatePropertyField(remote, fieldID, field, apiErr) ==
    IF apiErr \/ fieldID \notin DOMAIN remote
    THEN [remote |-> remote, err |-> TRUE]
    ELSE [remote |-> Put(remote, fieldID, field), err |-> FALSE]

\* ------------------------------------------------------------------------
\* field sync: extractMultiselectOptions, mergeOptions
\* ------------------------------------------------------------------------

\* the deduplicated option names of a field over all users: the string
\* items, empty strings skipped, of every list value
optionsSet(us, fieldName) ==
    UNION { {us[i][fieldName].l[k].s :
                k \in {j \in DOMAIN us[i][fieldName].l :
                          /\ us[i][fieldName].l[j].t = "string"
                          /\ us[i][fieldName].l[j].s # << >>}} :
            i \in {j \in DOMAIN us : /\ fieldName \in DOMAIN us[j]
                                     /\ us[j][fieldName].t = "list"} }

\* the orders in which ranging over the set (a Go map) can yield its keys
Orders(S) ==
    {o \in [1..Cardinality(S) -> S] : \A i, j \in DOMAIN o : i # j => o[i] # o[j]}

\* extractMultiselectOptions returns the set as a slice, in map order
extractMultiselectOptions(us, fieldName, order) == order

\* variant that appends every value, known or not
RECURSIVE mergeNew_AppendAll(_, _, _, _, _)
mergeNew_AppendAll(newValues, existingMap, merged, newCount, newID) ==
    IF newValues = << >>
    THEN [merged |-> merged, newCount |-> newCount, nextId |-> newID]
    ELSE mergeNew_AppendAll(Tail(newValues), existingMap,
                            Append(merged, OptEntry(newID, Head(newValues))),
                            newCount + 1, newID + 1)

\* second loop of mergeOptions: append every value not yet known
RECURSIVE mergeNew(_, _, _, _, _)
mergeNew(newValues, existingMap, merged, newCount, newID) ==
    IF newValues = << >>
    THEN [merged |-> merged, newCount |-> newCount, nextId |-> newID]
    ELSE IF Head(newValues) \in DOMAIN existingMap
         THEN mergeNew(Tail(newValues), existingMap, merged, newCount, newID)
         ELSE mergeNew(Tail(newValues), Put(existingMap, Head(newValues), newID),
                       Append(merged, OptEntry(newID, Head(newValues))),
                       newCount + 1, newID + 1)

\* variant that starts from an empty list instead of the existing options
mergeOptions_DropExisting(existingOptions, newValues, newID) ==
    mergeNew(newValues, EmptyMap, << >>, 0, newID)

\* variant that does not look the new values up among the existing options
mergeOptions_NoLookup(existingOptions, newValues, newID) ==
    LET wellFormed(o) == o.name.t = "string" /\ o.id.t = "string"
    IN  mergeNew(newValues, EmptyMap, SelectSeq(existingOptions, wellFormed), 0, newID)

\* newID is the next identifier model.NewId() hands out
mergeOptions(existingOptions, newValues, newID) ==
    LET wellFormed(o) == o.name.t = "string" /\ o.id.t = "string"
        kept == SelectSeq(existingOptions, wellFormed)
        existingMap == [n \in {kept[i].name.v : i \in DOMAIN kept} |->
                          kept[CHOOSE i \in DOMAIN kept :
                                  /\ kept[i].name.v = n
                                  /\ \A j \in DOMAIN kept :
                                        kept[j].name.v = n => j <= i].id.v]
    IN  mergeNew(newValues, existingMap, kept, 0, newID)

\* name -> id of the well-formed entries of an option list
optionsMapOf(options) ==
    LET ok == {i \in DOMAIN options : /\ options[i].name.t = "string"
                                     /\ options[i].id.t = "string"}
    IN  [n \in {options[i].name.v : i \in ok} |->
            options[CHOOSE i \in ok : /\ options[i].name.v = n
                                      /\ \A j \in ok : options[j].name.v = n => j <= i].id.v]

\* ------------------------------------------------------------------------
\* field sync: one iteration of SyncFields and the helpers it calls.
\* The state they work on is threaded as a record w:
\*   c, kvM, kvO   the cache and the persistent store
\*   remote, nextId the remote fields and the next fresh identifier
\*   fieldMapping  the result map of SyncFields
\*   made, failed  the external calls made / failed in this iteration
\*   savedMap      the (name, id) pairs passed to cache.SaveFieldMapping
\*   saves         the number of cache.SaveFieldMapping calls
\*   savedOpt      the names passed to cache.SaveFieldOptions
\* f is the set of external calls that fail in this iteration.
\* ------------------------------------------------------------------------

CallKinds == {"kvGetMap", "create", "kvSetMap", "kvSetOpt", "search", "kvSetMap2",
              "get", "update"}

RemoteKinds == {"create", "search", "get", "update"}

Mark(w, kind, isErr) ==
    [w EXCEPT !.made = @ \cup {kind},
              !.failed = IF isErr THEN @ \cup {kind} ELSE @,
              !.again = IF kind \in w.made THEN @ \cup {kind} ELSE @]

cacheSaveFieldMapping(w, fieldName, fieldID, kind, f) ==
    LET saved(r) ==
            [w |-> Mark([w EXCEPT !.c = r.c, !.kvM = r.kvM,
                                  !.savedMap = @ \cup {<<fieldName, fieldID>>},
                                  !.saves = @ + 1],
                        kind, r.err),
             err |-> r.err]
    IN  saved(SaveFieldMapping(w.c, w.kvM, fieldName, fieldID, kind \in f))

cacheSaveFieldOptions(w, fieldName, options, f) ==
    LET saved(r) ==
            [w |-> Mark([w EXCEPT !.c = r.c, !.kvO = r.kvO,
                                  !.savedOpt = @ \cup {fieldName}],
                        "kvSetOpt", r.err),
             err |-> r.err]
    IN  saved(SaveFieldOptions(w.c, w.kvO, fieldName, options, "kvSetOpt" \in f))

createPropertyField(w, fieldName, fieldType, f) ==
    LET field == [Name |-> toDisplayName(fieldName), Type |-> fieldType,
                  hasOptions |-> FALSE, options |-> << >>]
        \* after cache.SaveFieldMapping(fieldName, createdField.ID)
        saved(sv, id) == [w |-> sv.w, id |-> id, err |-> sv.err]
        \* after client.Property.CreatePropertyField(field)
        created(cr) ==
            IF cr.err THEN [w |-> Mark(w, "create", TRUE), id |-> NoId, err |-> TRUE]
            ELSE saved(cacheSaveFieldMapping(
                           [Mark(w, "create", FALSE) EXCEPT !.remote = cr.remote,
                                                            !.nextId = @ + 1],
                           fieldName, cr.id, "kvSetMap", f), cr.id)
    IN  created(CreatePropertyField(w.remote, w.nextId, field, "create" \in f))

createMultiselectFieldWithOptions(w, fieldName, us, order, f) ==
    LET optionValues == extractMultiselectOptions(us, fieldName, order)
        options == [i \in DOMAIN optionValues |->
                       OptEntry(w.nextId + i - 1, optionValues[i])]
        fieldID == w.nextId + Len(optionValues)
        field == [Name |-> toDisplayName(fieldName),
                  Type |-> PropertyFieldTypeMultiselect,
                  hasOptions |-> TRUE, options |-> options]
        \* after cache.SaveFieldMapping(fieldName, createdField.ID)
        saved(sv, id) ==
            IF sv.err THEN [w |-> sv.w, id |-> id, err |-> TRUE]
            ELSE [w |-> cacheSaveFieldOptions(sv.w, fieldName,
                                              optionsMapOf(options), f).w,
                  id |-> id, err |-> FALSE]
        \* after client.Property.CreatePropertyField(field)
        created(cr) ==
            IF cr.err THEN [w |-> Mark(w, "create", TRUE), id |-> NoId, err |-> TRUE]
            ELSE saved(cacheSaveFieldMapping(
                           [Mark(w, "create", FALSE) EXCEPT !.remote = cr.remote,
                                                            !.nextId = fieldID + 1],
                           fieldName, cr.id, "kvSetMap", f), cr.id)
    IN  created(CreatePropertyField(w.remote, fieldID, field, "create" \in f))

\* variant that sets the type of the field it updates to multiselect
updateMultiselectOptions_Retype(w, fieldID, fieldName, us, order, f) ==
    LET newOptionValues == extractMultiselectOptions(us, fieldName, order)
        \* after client.Property.UpdatePropertyField(groupID, field)
        updated(ur, w1, m) ==
            IF ur.err THEN [w |-> Mark(w1, "update", TRUE), err |-> TRUE]
            ELSE [w |-> cacheSaveFieldOptions(
                            [Mark(w1, "update", FALSE) EXCEPT !.remote = ur.remote,
                                                              !.nextId = m.nextId],
                            fieldName, optionsMapOf(m.merged), f).w,
                  err |-> FALSE]
        \* after mergeOptions(existingOptions, newOptionValues)
        merged(m, gr, w1) ==
            IF m.newCount = 0 THEN [w |-> w1, err |-> FALSE]
            ELSE updated(UpdatePropertyField(
                             w1.remote, fieldID,
                             [gr.field EXCEPT !.hasOptions = TRUE,
                                              !.Type = PropertyFieldTypeMultiselect,
                                              !.options = m.merged],
                             "update" \in f), w1, m)
        \* after client.Property.GetPropertyField(groupID, fieldID)
        got(gr) ==
            IF gr.err THEN [w |-> Mark(w, "get", TRUE), err |-> TRUE]
            ELSE merged(mergeOptions(IF gr.field.hasOptions THEN gr.field.options
                                     ELSE << >>,
                                     newOptionValues, w.nextId),
                        gr, Mark(w, "get", FALSE))
    IN  IF Len(newOptionValues) = 0 THEN [w |-> w, err |-> FALSE]
        ELSE got(GetPropertyField(w.remote, fieldID, "get" \in f))

\* variant that pushes the option list even when the merge added nothing
updateMultiselectOptions_AlwaysPush(w, fieldID, fieldName, us, order, f) ==
    LET newOptionValues == extractMultiselectOptions(us, fieldName, order)
        \* after client.Property.UpdatePropertyField(groupID, field)
        updated(ur, w1, m) ==
            IF ur.err THEN [w |-> Mark(w1, "update", TRUE), err |-> TRUE]
            ELSE [w |-> cacheSaveFieldOptions(
                            [Mark(w1, "update", FALSE) EXCEPT !.remote = ur.remote,
                                                              !.nextId = m.nextId],
                            fieldName, optionsMapOf(m.merged), f).w,
                  err |-> FALSE]
        \* after mergeOptions(existingOptions, newOptionValues)
        merged(m, gr, w1) ==
            IF m.newCount < 0 THEN [w |-> w1, err |-> FALSE]
            ELSE updated(UpdatePropertyField(
                             w1.remote, fieldID,
                             [gr.field EXCEPT !.hasOptions = TRUE,
                                              !.options = m.merged],
                             "update" \in f), w1, m)
        \* after client.Property.GetPropertyField(groupID, fieldID)
        got(gr) ==
            IF gr.err THEN [w |-> Mark(w, "get", TRUE), err |-> TRUE]
            ELSE merged(mergeOptions(IF gr.field.hasOptions THEN gr.field.options
                                     ELSE << >>,
                                     newOptionValues, w.nextId),
                        gr, Mark(w, "get", FALSE))
    IN  IF Len(newOptionValues) = 0 THEN [w |-> w, err |-> FALSE]
        ELSE got(GetPropertyField(w.remote, fieldID, "get" \in f))

\* variant that saves the merged options although the remote update failed
updateMultiselectOptions_SaveOnFailure(w, fieldID, fieldName, us, order, f) ==
    LET newOptionValues == extractMultiselectOptions(us, fieldName, order)
        \* after client.Property.UpdatePropertyField(groupID, field)
        updated(ur, w1, m) ==
            IF ur.err
            THEN [w |-> cacheSaveFieldOptions(Mark(w1, "update", TRUE), fieldName,
                                              optionsMapOf(m.merged), f).w,
                  err |-> TRUE]
            ELSE [w |-> cacheSaveFieldOptions(
                            [Mark(w1, "update", FALSE) EXCEPT !.remote = ur.remote,
                                                              !.nextId = m.nextId],
                            fieldName, optionsMapOf(m.merged), f).w,
                  err |-> FALSE]
        \* after mergeOptions(existingOptions, newOptionValues)
        merged(m, gr, w1) ==
            IF m.newCount = 0 THEN [w |-> w1, err |-> FALSE]
            ELSE updated(UpdatePropertyField(
                             w1.remote, fieldID,
                             [gr.field EXCEPT !.hasOptions = TRUE,
                                              !.options = m.merged],
                             "update" \in f), w1, m)
        \* after client.Property.GetPropertyField(groupID, fieldID)
        got(gr) ==
            IF gr.err THEN [w |-> Mark(w, "get", TRUE), err |-> TRUE]
            ELSE merged(mergeOptions(IF gr.field.hasOptions THEN gr.field.options
                                     ELSE << >>,
                                     newOptionValues, w.nextId),
                        gr, Mark(w, "get", FALSE))
    IN  IF Len(newOptionValues) = 0 THEN [w |-> w, err |-> FALSE]
        ELSE got(GetPropertyField(w.remote, fieldID, "get" \in f))

updateMultiselectOptions(w, fieldID, fieldName, us, order, f) ==
    LET newOptionValues == extractMultiselectOptions(us, fieldName, order)
        \* after client.Property.UpdatePropertyField(groupID, field)
        updated(ur, w1, m) ==
            IF ur.err THEN [w |-> Mark(w1, "update", TRUE), err |-> TRUE]
            ELSE [w |-> cacheSaveFieldOptions(
                            [Mark(w1, "update", FALSE) EXCEPT !.remote = ur.remote,
                                                              !.nextId = m.nextId],
                            fieldName, optionsMapOf(m.merged), f).w,
                  err |-> FALSE]
        \* after mergeOptions(existingOptions, newOptionValues)
        merged(m, gr, w1) ==
            IF m.newCount = 0 THEN [w |-> w1, err |-> FALSE]
            ELSE updated(UpdatePropertyField(
                             w1.remote, fieldID,
                             [gr.field EXCEPT !.hasOptions = TRUE,
                                              !.options = m.merged],
                             "update" \in f), w1, m)
        \* after client.Property.GetPropertyField(groupID, fieldID)
        got(gr) ==
            IF gr.err THEN [w |-> Mark(w, "get", TRUE), err |-> TRUE]
            ELSE merged(mergeOptions(IF gr.field.hasOptions THEN gr.field.options
                                     ELSE << >>,
                                     newOptionValues, w.nextId),
                        gr, Mark(w, "get", FALSE))
    IN  IF Len(newOptionValues) = 0 THEN [w |-> w, err |-> FALSE]
        ELSE got(GetPropertyField(w.remote, fieldID, "get" \in f))

\* the matching field with the least ID (NoId when there is none)
firstMatch(remote, ids) ==
    IF ids = {} THEN NoId ELSE CHOOSE i \in ids : \A j \in ids : i <= j

\* variant that compares the type only
queryExistingFieldByName_TypeOnly(remote, fieldName, fieldType, apiErr) ==
    IF apiErr THEN [id |-> NoId, err |-> TRUE]
    ELSE [id |-> firstMatch(remote, {i \in DOMAIN remote : remote[i].Type = fieldType}),
          err |-> FALSE]

\* variant that never finds a field
queryExistingFieldByName_NotFound(remote, fieldName, fieldType, apiErr) ==
    IF apiErr THEN [id |-> NoId, err |-> TRUE]
    ELSE [id |-> NoId, err |-> FALSE]

\* variant that compares the display name only
queryExistingFieldByName_NameOnly(remote, fieldName, fieldType, apiErr) ==
    IF apiErr THEN [id |-> NoId, err |-> TRUE]
    ELSE [id |-> firstMatch(remote, {i \in DOMAIN remote :
                                       remote[i].Name = toDisplayName(fieldName)}),
          err |-> FALSE]

\* SearchPropertyFields, then the first field with the display name and type
queryExistingFieldByName(remote, fieldName, fieldType, apiErr) ==
    IF apiErr THEN [id |-> NoId, err |-> TRUE]
    ELSE LET displayName == toDisplayName(fieldName)
         IN  [id |-> firstMatch(remote, {i \in DOMAIN remote :
                                            /\ remote[i].Name = displayName
                                            /\ remote[i].Type = fieldType}),
              err |-> FALSE]

\* the body of the loop of SyncFields for one discovered field
SyncFieldsIteration(w0, fieldName, sampleValue, us, order, f) ==
    LET fieldType == inferFieldType(sampleValue)
        \* the field has an ID: record it in the result map and, for a
        \* multiselect field, add the new options
        mapped(w, fieldID) ==
            IF fieldType = PropertyFieldTypeMultiselect
            THEN updateMultiselectOptions(
                     [w EXCEPT !.fieldMapping = Put(@, fieldName, fieldID)],
                     fieldID, fieldName, us, order, f).w
            ELSE [w EXCEPT !.fieldMapping = Put(@, fieldName, fieldID)]
        \* after the fallback queryExistingFieldByName
        queried(q, w) ==
            IF q.err \/ q.id = NoId THEN Mark(w, "search", q.err)
            ELSE mapped(cacheSaveFieldMapping(Mark(w, "search", FALSE), fieldName,
                                              q.id, "kvSetMap2", f).w, q.id)
        \* after createMultiselectFieldWithOptions / createPropertyField
        created(cr) ==
            IF ~cr.err
            THEN [cr.w EXCEPT !.fieldMapping = Put(@, fieldName, cr.id)]
            ELSE queried(queryExistingFieldByName(cr.w.remote, fieldName, fieldType,
                                                  "search" \in f), cr.w)
        looked(existingFieldID, w) ==
            IF existingFieldID # NoId
            THEN mapped(w, existingFieldID)
            ELSE created(IF fieldType = PropertyFieldTypeMultiselect
                         THEN createMultiselectFieldWithOptions(w, fieldName, us,
                                                                order, f)
                         ELSE createPropertyField(w, fieldName, fieldType, f))
        \* after cache.GetFieldID(fieldName)
        got(g) ==
            looked(g.id, IF g.read
                         THEN Mark([w0 EXCEPT !.c = g.c], "kvGetMap", "kvGetMap" \in f)
                         ELSE [w0 EXCEPT !.c = g.c])
    IN  got(GetFieldID(w0.c, w0.kvM, fieldName, "kvGetMap" \in f))

\* ------------------------------------------------------------------------
\* value_sync.go: formatStringValue, formatMultiselectValue,
\* buildPropertyValues and one iteration of SyncUsers.
\* An external call of an iteration is named by a pair: <<"lookup", "">>,
\* <<"upsert", "">>, <<"kvGetMap", fieldName>>, <<"kvGetOpt", fieldName>>.
\* The threaded record w additionally counts, per field name, the
\* GetFieldID / GetOptionID calls and the store reads they caused.
\* ------------------------------------------------------------------------

\* json.Marshal(string): the string literal in double quotes
formatStringValue(value) ==
    [kind |-> "string", str |-> <<"\"">> \o value \o <<"\"">>, ids |-> << >>]

Bump(m, k, by) == Put(m, k, Lookup(m, k, 0) + by)

MarkU(w, call, isErr) ==
    [w EXCEPT !.made = @ \cup {call},
              !.failed = IF isErr THEN @ \cup {call} ELSE @,
              !.again = IF call \in w.made THEN @ \cup {call[1]} ELSE @]

\* the loop of formatMultiselectValue; result: the option IDs, or an error
RECURSIVE resolveOptions(_, _, _, _, _)
resolveOptions(w, fieldName, values, optionIDs, f) ==
    IF values = << >> THEN [w |-> w, ids |-> optionIDs, err |-> FALSE]
    ELSE LET call == <<"kvGetOpt", fieldName>>
             looked(g, w2) ==
                 IF g.err \/ g.id = NoId
                 THEN [w |-> w2, ids |-> << >>, err |-> TRUE]
                 ELSE resolveOptions(w2, fieldName, Tail(values),
                                     Append(optionIDs, g.id), f)
             counted(g, w1) ==
                 looked(g, IF g.read THEN MarkU(w1, call, call \in f) ELSE w1)
             \* after cache.GetOptionID(fieldName, value)
             got(g) ==
                 counted(g, [w EXCEPT !.c = g.c,
                                      !.oidCalls = Bump(@, fieldName, 1),
                                      !.optReads = Bump(@, fieldName,
                                                        IF g.read THEN 1 ELSE 0)])
         IN  got(GetOptionID(w.c, w.kvO, fieldName, Head(values), call \in f))

formatMultiselectValue(w, fieldName, values, f) ==
    LET marshalled(r) ==
            [w |-> r.w, err |-> r.err,
             value |-> [kind |-> "array", str |-> << >>, ids |-> r.ids]]
    IN  marshalled(resolveOptions(w, fieldName, values, << >>, f))

\* the body of the loop of buildPropertyValues for one attribute
buildOne(w, fieldName, fieldValue, f) ==
    IF fieldName = email THEN w
    ELSE
    LET call == <<"kvGetMap", fieldName>>
        strs == SelectSeq(fieldValue.l, LAMBDA it : it.t = "string")
        stringValues == [i \in DOMAIN strs |-> strs[i].s]
        \* after formatMultiselectValue
        formatted(r, fieldID) ==
            IF r.err THEN r.w
            ELSE [r.w EXCEPT !.values = @ \cup
                     {[attr |-> fieldName, FieldID |-> fieldID, Value |-> r.value]}]
        \* after the error check on cache.GetFieldID
        looked(g, w2) ==
            IF g.err THEN w2
            ELSE IF fieldValue.t = "list"
            THEN formatted(formatMultiselectValue(w2, fieldName, stringValues, f), g.id)
            ELSE IF fieldValue.t = "string"
            THEN [w2 EXCEPT !.values = @ \cup
                     {[attr |-> fieldName, FieldID |-> g.id,
                       Value |-> formatStringValue(fieldValue.s)]}]
            ELSE w2
        counted(g, w1) == looked(g, IF g.read THEN MarkU(w1, call, call \in f) ELSE w1)
        \* after cache.GetFieldID(fieldName)
        got(g) ==
            counted(g, [w EXCEPT !.c = g.c,
                                 !.fidCalls = Bump(@, fieldName, 1),
                                 !.mapReads = Bump(@, fieldName,
                                                   IF g.read THEN 1 ELSE 0)])
    IN  got(GetFieldID(w.c, w.kvM, fieldName, call \in f))

\* buildPropertyValues: the attributes of a map are visited in any order;
\* the visits commute, since each touches only its own field's cache entries
RECURSIVE buildPropertyValues(_, _, _, _)
buildPropertyValues(w, userAttrs, names, f) ==
    IF names = {} THEN w
    ELSE LET n == CHOOSE x \in names : TRUE
         IN  buildPropertyValues(buildOne(w, n, userAttrs[n], f), userAttrs,
                                 names \ {n}, f)

\* the user directory of the host server: email -> user ID
Directory == (<<"a">> :> "user-a") @@ (<<"b">> :> "user-b")

GetByEmail(addr, apiErr) ==
    IF apiErr \/ addr \notin DOMAIN Directory THEN [id |-> "", err |-> TRUE]
    ELSE [id |-> Directory[addr], err |-> FALSE]

\* variant that stores one of the values of the call only
UpsertPropertyValues_OneValue(stored, userID, values, apiErr) ==
    IF apiErr THEN [stored |-> stored, err |-> TRUE]
    ELSE [stored |-> LET v == CHOOSE x \in values : TRUE
                     IN  Put(stored, <<userID, v.FieldID>>, v.Value),
          err |-> FALSE]

\* variant that replaces all the values the user has
UpsertPropertyValues_ReplaceAll(stored, userID, values, apiErr) ==
    IF apiErr THEN [stored |-> stored, err |-> TRUE]
    ELSE [stored |-> [k \in {<<userID, v.FieldID>> : v \in values} |->
                         (CHOOSE v \in values : v.FieldID = k[2]).Value]
                     @@ [k \in {x \in DOMAIN stored : x[1] # userID} |-> stored[k]],
          err |-> FALSE]

\* values : (user ID, field ID) -> stored value
UpsertPropertyValues(stored, userID, values, apiErr) ==
    IF apiErr THEN [stored |-> stored, err |-> TRUE]
    ELSE [stored |-> [k \in {<<userID, v.FieldID>> : v \in values} |->
                         (CHOOSE v \in values : v.FieldID = k[2]).Value] @@ stored,
          err |-> FALSE]

\* variant that calls UpsertPropertyValues a second time when it failed
SyncUsersIteration_RetryUpsert(w0, userAttrs, f) ==
    IF ~(email \in DOMAIN userAttrs /\ userAttrs[email].t = "string"
                                    /\ userAttrs[email].s # << >>)
    THEN [w0 EXCEPT !.outcome = "noEmail"]
    ELSE
    LET \* after api.Property.UpsertPropertyValues(values)
        upserted(up, w2) ==
            IF up.err
            THEN [MarkU(MarkU(w2, <<"upsert", << >>>>, TRUE), <<"upsert", << >>>>, TRUE)
                     EXCEPT !.outcome = "upsertFailed"]
            ELSE [MarkU(w2, <<"upsert", << >>>>, FALSE) EXCEPT
                     !.stored = up.stored, !.outcome = "synced"]
        \* after buildPropertyValues
        built(w2, u) ==
            IF w2.values = {} THEN [w2 EXCEPT !.outcome = "noValues"]
            ELSE upserted(UpsertPropertyValues(w2.stored, u.id, w2.values,
                                               <<"upsert", << >>>> \in f),
                          [w2 EXCEPT !.upserts = Append(@, [userID |-> u.id,
                                                            values |-> w2.values])])
        \* after api.User.GetByEmail(email)
        found(u) ==
            IF u.err
            THEN [MarkU(w0, <<"lookup", << >>>>, TRUE) EXCEPT !.outcome = "userNotFound"]
            ELSE built(buildPropertyValues(MarkU(w0, <<"lookup", << >>>>, FALSE),
                                           userAttrs, DOMAIN userAttrs, f), u)
    IN  found(GetByEmail(userAttrs[email].s, <<"lookup", << >>>> \in f))

\* the body of the loop of SyncUsers for one user record; outcome names the
\* branch taken
SyncUsersIteration(w0, userAttrs, f) ==
    IF ~(email \in DOMAIN userAttrs /\ userAttrs[email].t = "string"
                                    /\ userAttrs[email].s # << >>)
    THEN [w0 EXCEPT !.outcome = "noEmail"]
    ELSE
    LET \* after api.Property.UpsertPropertyValues(values)
        upserted(up, w2) ==
            IF up.err
            THEN [MarkU(w2, <<"upsert", << >>>>, TRUE) EXCEPT !.outcome = "upsertFailed"]
            ELSE [MarkU(w2, <<"upsert", << >>>>, FALSE) EXCEPT
                     !.stored = up.stored, !.outcome = "synced"]
        \* after buildPropertyValues
        built(w2, u) ==
            IF w2.values = {} THEN [w2 EXCEPT !.outcome = "noValues"]
            ELSE upserted(UpsertPropertyValues(w2.stored, u.id, w2.values,
                                               <<"upsert", << >>>> \in f),
                          [w2 EXCEPT !.upserts = Append(@, [userID |-> u.id,
                                                            values |-> w2.values])])
        \* after api.User.GetByEmail(email)
        found(u) ==
            IF u.err
            THEN [MarkU(w0, <<"lookup", << >>>>, TRUE) EXCEPT !.outcome = "userNotFound"]
            ELSE built(buildPropertyValues(MarkU(w0, <<"lookup", << >>>>, FALSE),
                                           userAttrs, DOMAIN userAttrs, f), u)
    IN  found(GetByEmail(userAttrs[email].s, <<"lookup", << >>>> \in f))

UserCalls(userAttrs) ==
    {<<"lookup", << >>>>, <<"upsert", << >>>>}
    \cup {<<k, n>> : k \in {"kvGetMap", "kvGetOpt"}, n \in DOMAIN userAttrs \ {email}}

\* ------------------------------------------------------------------------
\* file_provider.go and property_group.go
\* ------------------------------------------------------------------------

NewFileProvider == [lastModTime |-> 0]

\* ioErr: "stat" (os.Stat fails), "read" (ReadFile or the JSON parse fails)
\* or "none"
\* variant that hands out the content although reading the file failed
GetUserAttributes_ReadErrIgnored(fp, content, mtime, ioErr) ==
    IF ioErr = "stat" THEN [fp |-> fp, users |-> << >>, err |-> TRUE]
    ELSE IF fp.lastModTime # 0 /\ ~(mtime > fp.lastModTime)
    THEN [fp |-> fp, users |-> << >>, err |-> FALSE]
    ELSE [fp |-> [lastModTime |-> mtime], users |-> content, err |-> FALSE]

\* variant that never records the modification time it has read
GetUserAttributes_NoTracking(fp, content, mtime, ioErr) ==
    IF ioErr = "stat" THEN [fp |-> fp, users |-> << >>, err |-> TRUE]
    ELSE IF fp.lastModTime # 0 /\ ~(mtime > fp.lastModTime)
    THEN [fp |-> fp, users |-> << >>, err |-> FALSE]
    ELSE IF ioErr = "read" THEN [fp |-> fp, users |-> << >>, err |-> TRUE]
    ELSE [fp |-> fp, users |-> content, err |-> FALSE]

GetUserAttributes(fp, content, mtime, ioErr) ==
    IF ioErr = "stat" THEN [fp |-> fp, users |-> << >>, err |-> TRUE]
    ELSE IF fp.lastModTime # 0 /\ ~(mtime > fp.lastModTime)
    THEN [fp |-> fp, users |-> << >>, err |-> FALSE]
    ELSE IF ioErr = "read" THEN [fp |-> fp, users |-> << >>, err |-> TRUE]
    ELSE [fp |-> [lastModTime |-> mtime], users |-> content, err |-> FALSE]

\* registered: whether the custom_profile_attributes group exists remotely
GetOrRegisterCPAGroup(registered, getErr, regErr) ==
    IF ~getErr /\ registered THEN [registered |-> registered, err |-> FALSE]
    ELSE IF regErr THEN [registered |-> registered, err |-> TRUE]
    ELSE [registered |-> TRUE, err |-> FALSE]

\* ------------------------------------------------------------------------
\* The data source: the contents the data file can have
\* ------------------------------------------------------------------------

dept == <<"d", "e", "p", "t">>

tags == <<"t", "a", "g", "s">>

since == <<"s", "i", "n", "c", "e">>

Rec1(k1, v1) == k1 :> v1

Rec2(k1, v1, k2, v2) == (k1 :> v1) @@ (k2 :> v2)

Rec3(k1, v1, k2, v2, k3, v3) == (k1 :> v1) @@ (k2 :> v2) @@ (k3 :> v3)

Item(str) == [t |-> "string", s |-> str]

NumItem(str) == [t |-> "number", s |-> str]

Eng == JStr(<<"E", "n", "g">>)

Ops == JStr(<<"O", "p", "s">>)

Feb30 == JStr(<<"2", "0", "2", "4", "-", "0", "2", "-", "3", "0">>)

\* no records at all
FileEmpty == << >>

\* two users, a text field and a multiselect field with options X, Y
FileFirst ==
    << Rec2(email, JStr(<<"a">>), dept, Eng),
       Rec3(email, JStr(<<"b">>), dept, Ops,
            tags, JList(<<Item(<<"X">>), Item(<<"Y">>)>>)) >>

\* a later export: tags carries a new option Z, dept is null, the second
\* user is unknown to the server
FileSecond ==
    << Rec3(email, JStr(<<"a">>), dept, JNil,
            tags, JList(<<Item(<<"Y">>), Item(<<"Z">>)>>)),
       Rec3(email, JStr(<<"c">>), dept, JNil, tags, JList(<<Item(<<"X">>)>>)) >>

\* a record without email, a date, a number, and dept now carrying lists,
\* one with an empty string and one with a number among the elements
FileOdd ==
    << Rec2(since, Feb30, dept, JList(<<Item(<<"X">>), Item(<< >>)>>)),
       Rec3(email, JStr(<<"a">>), since, JNum(<<"7">>),
            dept, JList(<<Item(<<"X">>), NumItem(<<"7">>)>>)) >>

Files == {FileEmpty, FileFirst, FileSecond, FileOdd}

\* ------------------------------------------------------------------------
\* Arguments for mergeOptions applied on its own: existing option lists
\* with well-formed and malformed entries, and lists of new values
\* ------------------------------------------------------------------------

\* {"id": 123, "name": "Y"}: id of the wrong type
EntryBadId == [id |-> [t |-> "number", v |-> 123], name |-> [t |-> "string", v |-> <<"Y">>]]

\* {"id": "...", "name": 456}: name of the wrong type
EntryBadName ==
    [id |-> [t |-> "string", v |-> 13], name |-> [t |-> "number", v |-> <<"4", "5", "6">>]]

\* {"name": "Z"}: id missing
EntryNoId == [id |-> [t |-> "missing", v |-> 0], name |-> [t |-> "string", v |-> <<"Z">>]]

ExistingEntries ==
    {OptEntry(11, <<"X">>), OptEntry(12, <<"Y">>), EntryBadId, EntryBadName, EntryNoId}

SeqsUpTo(S, n) == UNION {[1..k -> S] : k \in 0..n}

NoCall == [existing |-> << >>, newValues |-> << >>, done |-> FALSE,
           merged |-> << >>, newCount |-> 0,
           again |-> FALSE, merged2 |-> << >>, newCount2 |-> 0]

\* first identifier mergeOptions mints when applied on its own
FreshId == 21

\* ------------------------------------------------------------------------
\* State
\* ------------------------------------------------------------------------

VARIABLES
    pc,             \* position of runSync: "idle", "group", "fields", "users"
    passes,         \* number of finished passes
    file, modTime,  \* the data file: content and modification time
    edits,          \* number of rewrites of the data file
    fileProvider,   \* the FileProvider of the current pass
    users,          \* the batch of the current pass
    registered,     \* remote: the property group exists
    remote,         \* remote: the property fields
    nextId,         \* next fresh identifier
    stored,         \* remote: the property values
    kvM, kvO,       \* persistent store: field mappings, field options
    kvLast,         \* persistent store: last sync time (0: never saved)
    cache,          \* the FieldCache of the current pass
    fieldMapping,   \* SyncFields: the result map
    todo,           \* SyncFields: discovered fields not yet processed
    userIdx,        \* SyncUsers: index of the next user record
    hist,           \* history of the calls made, kept for the properties
    pure            \* argument and result of a pure function applied on its own

vars == <<pc, passes, file, modTime, edits, fileProvider, users, registered,
          remote, nextId, stored, kvM, kvO, kvLast, cache, fieldMapping, todo,
          userIdx, hist, pure>>

\* History:
\*   failures    external calls made to fail so far
\*   failed      an external call of the current pass has failed
\*   schemaMade  remote schema calls made by SyncFields in the current pass
\*   schemaOk    how many of them succeeded
\*   written     field name -> IDs ever passed to SaveFieldMapping
\*   saves       field name -> number of SaveFieldMapping calls ever made
\*   optSaved    names passed to SaveFieldOptions in the current pass
\*   fidCalls, mapReads   per name: GetFieldID calls, GetFieldMapping reads
\*   oidCalls, optReads   per name: GetOptionID calls, GetFieldOptions reads
\*   built       values built by the last SyncUsers iteration
\*   outcome     branch taken by the last SyncUsers iteration
\*   result      how the last finished pass ended
\*   readMod     modification time seen by the last successful file read
\*   refetched   the current pass read a file unchanged since the last read
\*   fetch       how the file read of the current pass was made to fail
\*   steps       field name -> the calls made and failed, the mappings
\*               saved, and the remote calls made more than once by its
\*               SyncFields iteration in the current pass
\*   userLog     per SyncUsers iteration of the current pass: the branch
\*               taken, the calls made and failed, the values built, the
\*               UpsertPropertyValues calls, and which of the identity
\*               lookup and the upsert were made more than once
PassHist(h) ==
    [h EXCEPT !.failed = FALSE, !.schemaMade = 0, !.schemaOk = 0,
              !.optSaved = {}, !.fidCalls = EmptyMap, !.mapReads = EmptyMap,
              !.oidCalls = EmptyMap, !.optReads = EmptyMap, !.built = {},
              !.outcome = "none", !.refetched = FALSE, !.fetch = "none",
              !.steps = EmptyMap, !.userLog = << >>]

InitHist ==
    [failures |-> 0, failed |-> FALSE, schemaMade |-> 0, schemaOk |-> 0, written |-> EmptyMap,
     saves |-> EmptyMap,
     optSaved |-> {}, fidCalls |-> EmptyMap, mapReads |-> EmptyMap,
     oidCalls |-> EmptyMap, optReads |-> EmptyMap, built |-> {},
     outcome |-> "none", result |-> "none", readMod |-> 0, refetched |-> FALSE,
     fetch |-> "none", steps |-> EmptyMap, userLog |-> << >>]

Init ==
    /\ pc = "idle"
    /\ passes = 0
    /\ file \in Files
    /\ modTime = 1
    /\ edits = 0
    /\ fileProvider = NewFileProvider
    /\ users = << >>
    /\ registered = FALSE
    /\ remote = EmptyMap
    /\ nextId = 1
    /\ stored = EmptyMap
    /\ kvM = EmptyMap
    /\ kvO = EmptyMap
    /\ kvLast = 0
    /\ cache = NewFieldCache
    /\ fieldMapping = EmptyMap
    /\ todo = {}
    /\ userIdx = 1
    /\ hist = InitHist
    /\ pure = NoCall

\* the end of runSync: its locals go out of scope
EndPass ==
    /\ pc' = "idle"
    /\ passes' = passes + 1
    /\ users' = << >>
    /\ cache' = NewFieldCache
    /\ fieldMapping' = EmptyMap
    /\ todo' = {}
    /\ userIdx' = 1

\* ------------------------------------------------------------------------
\* Actions
\* ------------------------------------------------------------------------

\* the owner of the data file rewrites it between two passes
EditFile ==
    /\ pc = "idle"
    /\ edits < MaxFileEdits
    /\ \E content \in Files \ {file} : file' = content
    /\ modTime' = modTime + 1
    /\ edits' = edits + 1
    /\ UNCHANGED <<pure, pc, passes, fileProvider, users, registered, remote, nextId,
                   stored, kvM, kvO, kvLast, cache, fieldMapping, todo, userIdx,
                   hist>>

\* variant that keeps one FileProvider for all passes
RunSyncFetch_KeepProvider ==
    /\ pc = "idle"
    /\ passes < MaxPasses
    /\ \E ioErr \in {"none", "stat", "read"} :
         /\ ioErr # "none" => hist.failures < MaxFailures
         /\ LET r == GetUserAttributes(fileProvider, file, modTime, ioErr)
                h0 == PassHist(hist)
                h1 == [h0 EXCEPT !.failed = r.err,
                                 !.fetch = ioErr,
                                 !.failures = IF r.err THEN @ + 1 ELSE @,
                                 !.readMod = IF ~r.err /\ r.fp.lastModTime = modTime
                                             THEN modTime ELSE @,
                                 !.refetched = /\ ~r.err
                                               /\ Len(r.users) > 0
                                               /\ hist.readMod = modTime]
            IN  /\ fileProvider' = r.fp
                /\ IF r.err
                   THEN /\ EndPass
                        /\ hist' = [h1 EXCEPT !.result = "fetchError"]
                   ELSE IF Len(r.users) = 0
                   THEN /\ EndPass
                        /\ hist' = [h1 EXCEPT !.result = "empty"]
                   ELSE /\ pc' = "group"
                        /\ users' = r.users
                        /\ hist' = h1
                        /\ UNCHANGED <<passes, cache, fieldMapping, todo, userIdx>>
    /\ UNCHANGED <<pure, file, modTime, edits, registered, remote, nextId, stored,
                   kvM, kvO, kvLast>>

\* runSync, first part: a new FileProvider, GetUserAttributes, and the two
\* early returns
RunSyncFetch ==
    /\ pc = "idle"
    /\ passes < MaxPasses
    /\ \E ioErr \in {"none", "stat", "read"} :
         /\ ioErr # "none" => hist.failures < MaxFailures
         /\ LET r == GetUserAttributes(NewFileProvider, file, modTime, ioErr)
                h0 == PassHist(hist)
                h1 == [h0 EXCEPT !.failed = r.err,
                                 !.fetch = ioErr,
                                 !.failures = IF r.err THEN @ + 1 ELSE @,
                                 !.readMod = IF ~r.err /\ r.fp.lastModTime = modTime
                                             THEN modTime ELSE @,
                                 !.refetched = /\ ~r.err
                                               /\ Len(r.users) > 0
                                               /\ hist.readMod = modTime]
            IN  /\ fileProvider' = r.fp
                /\ IF r.err
                   THEN /\ EndPass
                        /\ hist' = [h1 EXCEPT !.result = "fetchError"]
                   ELSE IF Len(r.users) = 0
                   THEN /\ EndPass
                        /\ hist' = [h1 EXCEPT !.result = "empty"]
                   ELSE /\ pc' = "group"
                        /\ users' = r.users
                        /\ hist' = h1
                        /\ UNCHANGED <<passes, cache, fieldMapping, todo, userIdx>>
    /\ UNCHANGED <<pure, file, modTime, edits, registered, remote, nextId, stored,
                   kvM, kvO, kvLast>>

\* runSync, second part: GetOrRegisterCPAGroup, NewFieldCache, and the
\* start of SyncFields (discoverFields)
RunSyncGroup ==
    /\ pc = "group"
    /\ \E getErr, regErr \in BOOLEAN :
         LET r == GetOrRegisterCPAGroup(registered, getErr, regErr)
             n == (IF getErr THEN 1 ELSE 0) + (IF regErr THEN 1 ELSE 0)
         IN  /\ ~registered => ~getErr
             /\ registered /\ ~getErr => ~regErr
             /\ hist.failures + n <= MaxFailures
             /\ registered' = r.registered
             /\ IF r.err
                THEN /\ EndPass
                     /\ hist' = [hist EXCEPT !.failed = TRUE, !.failures = @ + n,
                                              !.result = "groupError"]
                ELSE /\ pc' = "fields"
                     /\ cache' = NewFieldCache
                     /\ fieldMapping' = EmptyMap
                     /\ todo' = DOMAIN discoverFields(users)
                     /\ hist' = [hist EXCEPT !.failed = @ \/ getErr,
                                              !.failures = @ + n]
                     /\ UNCHANGED <<passes, users, userIdx>>
    /\ UNCHANGED <<pure, file, modTime, edits, fileProvider, remote, nextId, stored,
                   kvM, kvO, kvLast>>

\* one iteration of the loop of SyncFields, for any field not yet processed
SyncFieldsStep ==
    /\ pc = "fields"
    /\ \E fieldName \in todo :
       \E order \in Orders(optionsSet(users, fieldName)) :
       \E f \in {g \in SUBSET CallKinds :
                   hist.failures + Cardinality(g) <= MaxFailures} :
         LET w0 == [c |-> cache, kvM |-> kvM, kvO |-> kvO, remote |-> remote,
                    nextId |-> nextId, fieldMapping |-> fieldMapping,
                    made |-> {}, failed |-> {}, savedMap |-> {}, saves |-> 0,
                    savedOpt |-> {}, again |-> {}]
             done(w) ==
                 /\ f \subseteq w.made
                 /\ cache' = w.c
                 /\ kvM' = w.kvM
                 /\ kvO' = w.kvO
                 /\ remote' = w.remote
                 /\ nextId' = w.nextId
                 /\ fieldMapping' = w.fieldMapping
                 /\ todo' = todo \ {fieldName}
                 /\ hist' = [hist EXCEPT
                      !.failed = @ \/ w.failed # {},
                      !.failures = @ + Cardinality(f),
                      !.schemaMade = @ + Cardinality(w.made \cap RemoteKinds),
                      !.schemaOk = @ + Cardinality((w.made \ w.failed) \cap RemoteKinds),
                      !.written = [n \in DOMAIN @ \cup {p[1] : p \in w.savedMap} |->
                                     Lookup(@, n, {}) \cup
                                     {p[2] : p \in {q \in w.savedMap : q[1] = n}}],
                      !.saves = Bump(@, fieldName, w.saves),
                      !.steps = Put(@, fieldName,
                                    [made |-> w.made, failed |-> w.failed,
                                     saved |-> w.savedMap,
                                     again |-> w.again \cap RemoteKinds]),
                      !.optSaved = @ \cup w.savedOpt,
                      !.fidCalls = Bump(@, fieldName, 1),
                      !.mapReads = Bump(@, fieldName,
                                        IF "kvGetMap" \in w.made THEN 1 ELSE 0)]
         IN  done(SyncFieldsIteration(w0, fieldName, discoverFields(users)[fieldName],
                                      users, order, f))
    /\ UNCHANGED <<pure, pc, passes, file, modTime, edits, fileProvider, users,
                   registered, stored, kvLast, userIdx>>

\* variant in which runSync goes on to SyncUsers before the loop of
\* SyncFields has finished
SyncFieldsReturn_Early ==
    /\ pc = "fields"
    /\ pc' = "users"
    /\ userIdx' = 1
    /\ UNCHANGED <<pure, passes, file, modTime, edits, fileProvider, users, registered,
                   remote, nextId, stored, kvM, kvO, kvLast, cache, fieldMapping,
                   todo, hist>>

\* SyncFields returns its map with a nil error; runSync goes on to SyncUsers
SyncFieldsReturn ==
    /\ pc = "fields"
    /\ todo = {}
    /\ pc' = "users"
    /\ userIdx' = 1
    /\ UNCHANGED <<pure, passes, file, modTime, edits, fileProvider, users, registered,
                   remote, nextId, stored, kvM, kvO, kvLast, cache, fieldMapping,
                   todo, hist>>

\* one iteration of the loop of SyncUsers
SyncUsersStep ==
    /\ pc = "users"
    /\ userIdx <= Len(users)
    /\ \E f \in {g \in SUBSET UserCalls(users[userIdx]) :
                   hist.failures + Cardinality(g) <= MaxFailures} :
         LET w0 == [c |-> cache, kvM |-> kvM, kvO |-> kvO, stored |-> stored,
                    made |-> {}, failed |-> {}, values |-> {}, outcome |-> "none",
                    upserts |-> << >>, again |-> {},
                    fidCalls |-> hist.fidCalls, mapReads |-> hist.mapReads,
                    oidCalls |-> hist.oidCalls, optReads |-> hist.optReads]
             done(w) ==
                 /\ f \subseteq w.made
                 /\ cache' = w.c
                 /\ stored' = w.stored
                 /\ hist' = [hist EXCEPT
                      !.failed = @ \/ w.failed # {},
                      !.failures = @ + Cardinality(f),
                      !.fidCalls = w.fidCalls, !.mapReads = w.mapReads,
                      !.oidCalls = w.oidCalls, !.optReads = w.optReads,
                      !.built = w.values, !.outcome = w.outcome,
                      !.userLog = Append(@, [outcome |-> w.outcome, made |-> w.made,
                                             failed |-> w.failed, built |-> w.values,
                                             upserts |-> w.upserts,
                                             again |-> w.again
                                                 \cap {"lookup", "upsert"}])]
         IN  done(SyncUsersIteration(w0, users[userIdx], f))
    /\ userIdx' = userIdx + 1
    /\ UNCHANGED <<pure, pc, passes, file, modTime, edits, fileProvider, users,
                   registered, remote, nextId, kvM, kvO, kvLast, fieldMapping, todo>>

\* variant in which SyncUsers reports a skipped record as an error
RunSyncDone_ErrOnSkip ==
    /\ pc = "users"
    /\ userIdx > Len(users)
    /\ EndPass
    /\ hist' = [hist EXCEPT !.result =
                   IF \E i \in DOMAIN hist.userLog : hist.userLog[i].outcome # "synced"
                   THEN "usersError" ELSE "completed"]
    /\ UNCHANGED <<pure, file, modTime, edits, fileProvider, registered, remote, nextId,
                   stored, kvM, kvO, kvLast>>

\* SyncUsers returns nil and runSync logs the completion
RunSyncDone ==
    /\ pc = "users"
    /\ userIdx > Len(users)
    /\ EndPass
    /\ hist' = [hist EXCEPT !.result = "completed"]
    /\ UNCHANGED <<pure, file, modTime, edits, fileProvider, registered, remote, nextId,
                   stored, kvM, kvO, kvLast>>

Next ==
    \/ EditFile
    \/ RunSyncFetch
    \/ RunSyncGroup
    \/ SyncFieldsStep
    \/ SyncFieldsReturn
    \/ SyncUsersStep
    \/ RunSyncDone

Spec == Init /\ [][Next]_vars

\* ------------------------------------------------------------------------
\* mergeOptions applied on its own to every argument within the bounds
\* ------------------------------------------------------------------------

InitMerge ==
    /\ pc = "idle"
    /\ passes = 0
    /\ file = FileEmpty
    /\ modTime = 1
    /\ edits = 0
    /\ fileProvider = NewFileProvider
    /\ users = << >>
    /\ registered = FALSE
    /\ remote = EmptyMap
    /\ nextId = FreshId
    /\ stored = EmptyMap
    /\ kvM = EmptyMap
    /\ kvO = EmptyMap
    /\ kvLast = 0
    /\ cache = NewFieldCache
    /\ fieldMapping = EmptyMap
    /\ todo = {}
    /\ userIdx = 1
    /\ hist = InitHist
    /\ \E e \in SeqsUpTo(ExistingEntries, MaxLen) :
       \E n \in SeqsUpTo({<<"X">>, <<"Y">>, <<"Z">>}, MaxLen) :
          pure = [NoCall EXCEPT !.existing = e, !.newValues = n]

MergeCall ==
    /\ ~pure.done
    /\ LET m == mergeOptions(pure.existing, pure.newValues, nextId)
       IN  /\ pure' = [pure EXCEPT !.done = TRUE, !.merged = m.merged,
                                   !.newCount = m.newCount]
           /\ nextId' = m.nextId
    /\ UNCHANGED <<pc, passes, file, modTime, edits, fileProvider, users,
                   registered, remote, stored, kvM, kvO, kvLast, cache,
                   fieldMapping, todo, userIdx, hist>>

\* mergeOptions called a second time, on its own result and the same values
MergeAgain ==
    /\ pure.done
    /\ ~pure.again
    /\ LET m == mergeOptions(pure.merged, pure.newValues, nextId)
       IN  /\ pure' = [pure EXCEPT !.again = TRUE, !.merged2 = m.merged,
                                   !.newCount2 = m.newCount]
           /\ nextId' = m.nextId
    /\ UNCHANGED <<pc, passes, file, modTime, edits, fileProvider, users,
                   registered, remote, stored, kvM, kvO, kvLast, cache,
                   fieldMapping, todo, userIdx, hist>>

NextMerge ==
    \/ MergeCall
    \/ MergeAgain

SpecMerge == InitMerge /\ [][NextMerge]_vars

\* ------------------------------------------------------------------------
\* The field cache used on its own: any sequence of calls on one cache
\* instance over a store that holds some mappings and option sets.
\* pure records the last call and, per field name, the last
\* SaveFieldMapping call: its ID, whether the store write was made to fail
\* and whether the call returned an error.
\* ------------------------------------------------------------------------

CacheNames == {dept, tags}

CacheIds == {1, 2}

CacheOptions == {<<"X">>, <<"Y">>}

NoCacheCall ==
    [op |-> "none", name |-> << >>, id |-> NoId, err |-> FALSE, read |-> FALSE,
     saved |-> EmptyMap]

InitCache ==
    /\ pc = "cache"
    /\ passes = 0
    /\ file = FileEmpty
    /\ modTime = 1
    /\ edits = 0
    /\ fileProvider = NewFileProvider
    /\ users = << >>
    /\ registered = FALSE
    /\ remote = EmptyMap
    /\ nextId = 1
    /\ stored = EmptyMap
    /\ kvM \in {EmptyMap, dept :> 1}
    /\ kvO \in {EmptyMap, tags :> Marshal(<<"X">> :> 1)}
    /\ kvLast = 0
    /\ cache = NewFieldCache
    /\ fieldMapping = EmptyMap
    /\ todo = {}
    /\ userIdx = 1
    /\ hist = InitHist
    /\ pure = NoCacheCall

CacheGetFieldID ==
    /\ \E n \in CacheNames, getErr \in BOOLEAN :
         LET got(g) ==
                 /\ cache' = g.c
                 /\ pure' = [pure EXCEPT !.op = "GetFieldID", !.name = n,
                                         !.id = g.id, !.err = g.err,
                                         !.read = g.read]
         IN  got(GetFieldID(cache, kvM, n, getErr))
    /\ UNCHANGED <<pc, passes, file, modTime, edits, fileProvider, users,
                   registered, remote, nextId, stored, kvM, kvO, kvLast,
                   fieldMapping, todo, userIdx, hist>>

CacheSaveFieldMapping ==
    /\ \E n \in CacheNames, id \in CacheIds, setErr \in BOOLEAN :
         LET saved(r) ==
                 /\ cache' = r.c
                 /\ kvM' = r.kvM
                 /\ pure' = [pure EXCEPT !.op = "SaveFieldMapping", !.name = n,
                                         !.id = id, !.err = r.err, !.read = FALSE,
                                         !.saved = Put(@, n, [id |-> id,
                                                              failed |-> setErr,
                                                              err |-> r.err])]
         IN  saved(SaveFieldMapping(cache, kvM, n, id, setErr))
    /\ UNCHANGED <<pc, passes, file, modTime, edits, fileProvider, users,
                   registered, remote, nextId, stored, kvO, kvLast,
                   fieldMapping, todo, userIdx, hist>>

CacheGetOptionID ==
    /\ \E n \in CacheNames, o \in CacheOptions, getErr \in BOOLEAN :
         LET got(g) ==
                 /\ cache' = g.c
                 /\ pure' = [pure EXCEPT !.op = "GetOptionID", !.name = n,
                                         !.id = g.id, !.err = g.err,
                                         !.read = g.read]
         IN  got(GetOptionID(cache, kvO, n, o, getErr))
    /\ UNCHANGED <<pc, passes, file, modTime, edits, fileProvider, users,
                   registered, remote, nextId, stored, kvM, kvO, kvLast,
                   fieldMapping, todo, userIdx, hist>>

CacheSaveFieldOptions ==
    /\ \E n \in CacheNames, setErr \in BOOLEAN :
       \E options \in {EmptyMap, (<<"X">> :> 1) @@ (<<"Y">> :> 2)} :
         LET saved(r) ==
                 /\ cache' = r.c
                 /\ kvO' = r.kvO
                 /\ pure' = [pure EXCEPT !.op = "SaveFieldOptions", !.name = n,
                                         !.id = NoId, !.err = r.err,
                                         !.read = FALSE]
         IN  saved(SaveFieldOptions(cache, kvO, n, options, setErr))
    /\ UNCHANGED <<pc, passes, file, modTime, edits, fileProvider, users,
                   registered, remote, nextId, stored, kvM, kvLast,
                   fieldMapping, todo, userIdx, hist>>

NextCache ==
    \/ CacheGetFieldID
    \/ CacheSaveFieldMapping
    \/ CacheGetOptionID
    \/ CacheSaveFieldOptions

SpecCache == InitCache /\ [][NextCache]_vars

\* ------------------------------------------------------------------------
\* The option maps of the cache as Go maps: references into a heap.
\*   pure.heap : reference -> map[string]string
\*   cache.fieldOptions : field name -> reference
\* The caller of SaveFieldOptions owns one map, which it passes to every
\* call and mutates between the calls.  pure.saved is, per field name, the
\* content the caller's map had at the last SaveFieldOptions call.
\* ------------------------------------------------------------------------

\* the field the calls are about
CopyNames == {tags}

NoCopyCall ==
    [op |-> "none", name |-> << >>, option |-> << >>, id |-> NoId,
     heap |-> EmptyMap, saved |-> EmptyMap]

InitCopy ==
    /\ pc = "copy"
    /\ passes = 0
    /\ file = FileEmpty
    /\ modTime = 1
    /\ edits = 0
    /\ fileProvider = NewFileProvider
    /\ users = << >>
    /\ registered = FALSE
    /\ remote = EmptyMap
    /\ nextId = 1
    /\ stored = EmptyMap
    /\ kvM = EmptyMap
    /\ kvO \in {EmptyMap, tags :> Marshal(<<"X">> :> 2)}
    /\ kvLast = 0
    /\ cache = NewFieldCache
    /\ fieldMapping = EmptyMap
    /\ todo = {}
    /\ userIdx = 1
    /\ hist = InitHist
    /\ \E m \in {<<"X">> :> 1, (<<"X">> :> 1) @@ (<<"Y">> :> 2)} :
          pure = [NoCopyCall EXCEPT !.heap = CallerRef :> m]

\* cache.SaveFieldOptions(n, m) with the caller's map m
CopySaveFieldOptions ==
    /\ \E n \in CopyNames, setErr \in BOOLEAN :
         LET saved(r) ==
                 /\ cache' = r.c
                 /\ kvO' = r.kvO
                 /\ pure' = [pure EXCEPT !.op = "SaveFieldOptions", !.name = n,
                                         !.option = << >>, !.id = NoId,
                                         !.heap = Collect(r.heap, r.c),
                                         !.saved = Put(@, n, pure.heap[CallerRef])]
         IN  saved(SaveFieldOptionsRef(pure.heap, cache, kvO, n, CallerRef, setErr))
    /\ UNCHANGED <<pc, passes, file, modTime, edits, fileProvider, users,
                   registered, remote, nextId, stored, kvM, kvLast,
                   fieldMapping, todo, userIdx, hist>>

\* the caller adds an entry to its map, changes one or removes one
CopyMutate ==
    /\ \E o \in CacheOptions, id \in CacheIds \cup {NoId} :
         LET m == pure.heap[CallerRef]
             m2 == IF id = NoId THEN [x \in DOMAIN m \ {o} |-> m[x]]
                   ELSE Put(m, o, id)
         IN  /\ m2 # m
             /\ pure' = [pure EXCEPT !.op = "mutate", !.name = << >>,
                                     !.option = << >>, !.id = NoId,
                                     !.heap = Put(@, CallerRef, m2)]
    /\ UNCHANGED <<pc, passes, file, modTime, edits, fileProvider, users,
                   registered, remote, nextId, stored, kvM, kvO, kvLast, cache,
                   fieldMapping, todo, userIdx, hist>>

\* cache.GetOptionID(n, o); on a miss the map read from the store is a new map
CopyGetOptionID ==
    /\ \E n \in CopyNames, o \in CacheOptions, getErr \in BOOLEAN :
         LET got(g, ref) ==
                 /\ cache' = IF n \in DOMAIN g.c.fieldOptions
                             THEN [cache EXCEPT !.fieldOptions = Put(@, n, ref)]
                             ELSE cache
                 /\ pure' = [pure EXCEPT !.op = "GetOptionID", !.name = n,
                                         !.option = o, !.id = g.id,
                                         !.heap = IF n \in DOMAIN g.c.fieldOptions
                                                  THEN Put(@, ref, g.c.fieldOptions[n])
                                                  ELSE @]
         IN  got(GetOptionID(Deref(pure.heap, cache), kvO, n, o, getErr),
                 IF n \in DOMAIN cache.fieldOptions THEN cache.fieldOptions[n]
                 ELSE NewRef(pure.heap))
    /\ UNCHANGED <<pc, passes, file, modTime, edits, fileProvider, users,
                   registered, remote, nextId, stored, kvM, kvO, kvLast,
                   fieldMapping, todo, userIdx, hist>>

NextCopy ==
    \/ CopySaveFieldOptions
    \/ CopyMutate
    \/ CopyGetOptionID

SpecCopy == InitCopy /\ [][NextCopy]_vars

\* ------------------------------------------------------------------------
\* The cache over the KVStore interface: every read of the backing store
\* may answer with a value, with "nothing stored", or with an error (the
\* mocked store of field_cache_test.go).  pure records the last call:
\*   read      the backing store was read
\*   storeErr  that read returned an error
\*   found     that read returned the ID asked for
\*   failedBefore  some earlier call's read returned an error
\* ------------------------------------------------------------------------

\* what c.store.GetFieldMapping can return
MappingResults ==
    {[id |-> i, err |-> FALSE] : i \in CacheIds \cup {NoId}}
        \cup {[id |-> NoId, err |-> TRUE]}

\* what c.store.GetFieldOptions can return
OptionResults ==
    {[options |-> m, err |-> FALSE] :
        m \in {EmptyMap, <<"X">> :> 1, (<<"X">> :> 1) @@ (<<"Y">> :> 2)}}
        \cup {[options |-> EmptyMap, err |-> TRUE]}

NoStoreCall ==
    [op |-> "none", name |-> << >>, option |-> << >>, id |-> NoId,
     err |-> FALSE, read |-> FALSE, storeErr |-> FALSE, found |-> FALSE,
     failedBefore |-> FALSE]

InitStore ==
    /\ pc = "store"
    /\ passes = 0
    /\ file = FileEmpty
    /\ modTime = 1
    /\ edits = 0
    /\ fileProvider = NewFileProvider
    /\ users = << >>
    /\ registered = FALSE
    /\ remote = EmptyMap
    /\ nextId = 1
    /\ stored = EmptyMap
    /\ kvM = EmptyMap
    /\ kvO = EmptyMap
    /\ kvLast = 0
    /\ cache = NewFieldCache
    /\ fieldMapping = EmptyMap
    /\ todo = {}
    /\ userIdx = 1
    /\ hist = InitHist
    /\ pure = NoStoreCall

StoreGetFieldID ==
    /\ \E n \in CacheNames, r \in MappingResults :
         LET got(g) ==
                 /\ cache' = g.c
                 /\ pure' = [op |-> "GetFieldID", name |-> n, option |-> << >>,
                             id |-> g.id, err |-> g.err, read |-> g.read,
                             storeErr |-> g.read /\ r.err,
                             found |-> g.read /\ ~r.err /\ r.id # NoId,
                             failedBefore |-> pure.failedBefore \/ pure.storeErr]
         IN  got(GetFieldIDOver(cache, r, n))
    /\ UNCHANGED <<pc, passes, file, modTime, edits, fileProvider, users,
                   registered, remote, nextId, stored, kvM, kvO, kvLast,
                   fieldMapping, todo, userIdx, hist>>

StoreGetOptionID ==
    /\ \E n \in CacheNames, o \in CacheOptions, r \in OptionResults :
         LET got(g) ==
                 /\ cache' = g.c
                 /\ pure' = [op |-> "GetOptionID", name |-> n, option |-> o,
                             id |-> g.id, err |-> g.err, read |-> g.read,
                             storeErr |-> g.read /\ r.err,
                             found |-> g.read /\ ~r.err /\ o \in DOMAIN r.options,
                             failedBefore |-> pure.failedBefore \/ pure.storeErr]
         IN  got(GetOptionIDOver(cache, r, n, o))
    /\ UNCHANGED <<pc, passes, file, modTime, edits, fileProvider, users,
                   registered, remote, nextId, stored, kvM, kvO, kvLast,
                   fieldMapping, todo, userIdx, hist>>

NextStore ==
    \/ StoreGetFieldID
    \/ StoreGetOptionID

SpecStore == InitStore /\ [][NextStore]_vars

\* ------------------------------------------------------------------------
\* One FileProvider called again and again while the data file is rewritten
\* and its modification time set (also back to an earlier time).
\* pure records the last call:
\*   prevOk   modification time at the last successful read before the call
\*            (0: the file was never read successfully)
\*   lastOk   the same after the call
\*   skipped  an earlier call returned nothing for an unchanged file
\* ------------------------------------------------------------------------

FileTimes == 1 .. (MaxFileEdits + 2)

NoFileCall ==
    [op |-> "none", users |-> << >>, err |-> FALSE, prevOk |-> 0, lastOk |-> 0,
     skipped |-> FALSE]

InitFile ==
    /\ pc = "file"
    /\ passes = 0
    /\ file \in Files
    /\ modTime \in FileTimes
    /\ edits = 0
    /\ fileProvider = NewFileProvider
    /\ users = << >>
    /\ registered = FALSE
    /\ remote = EmptyMap
    /\ nextId = 1
    /\ stored = EmptyMap
    /\ kvM = EmptyMap
    /\ kvO = EmptyMap
    /\ kvLast = 0
    /\ cache = NewFieldCache
    /\ fieldMapping = EmptyMap
    /\ todo = {}
    /\ userIdx = 1
    /\ hist = InitHist
    /\ pure = NoFileCall

\* the data file is rewritten or touched
FileWrite ==
    /\ \E content \in Files, t \in FileTimes :
         /\ <<content, t>> # <<file, modTime>>
         /\ file' = content
         /\ modTime' = t
    /\ pure' = [pure EXCEPT !.op = "write", !.users = << >>, !.err = FALSE,
                            !.prevOk = pure.lastOk]
    /\ UNCHANGED <<pc, passes, edits, fileProvider, users, registered, remote,
                   nextId, stored, kvM, kvO, kvLast, cache, fieldMapping, todo,
                   userIdx, hist>>

FileGetUserAttributes ==
    /\ \E ioErr \in {"none", "stat", "read"} :
         LET got(r) ==
                 /\ fileProvider' = r.fp
                 /\ pure' = [op |-> "GetUserAttributes", users |-> r.users,
                             err |-> r.err, prevOk |-> pure.lastOk,
                             lastOk |-> IF ~r.err /\ (pure.lastOk = 0
                                                      \/ modTime > pure.lastOk)
                                        THEN modTime ELSE pure.lastOk,
                             skipped |-> pure.skipped
                                 \/ (~r.err /\ pure.lastOk # 0
                                       /\ ~(modTime > pure.lastOk)
                                       /\ file # << >>)]
         IN  got(GetUserAttributes(fileProvider, file, modTime, ioErr))
    /\ UNCHANGED <<pc, passes, file, modTime, edits, users, registered, remote,
                   nextId, stored, kvM, kvO, kvLast, cache, fieldMapping, todo,
                   userIdx, hist>>

NextFile ==
    \/ FileWrite
    \/ FileGetUserAttributes

SpecFile == InitFile /\ [][NextFile]_vars

\* ------------------------------------------------------------------------
\* discoverFields applied on its own to every batch of up to MaxLen records
\* over the keys email, dept and tags, each absent, null or a string
\* ------------------------------------------------------------------------

DiscoverRecords ==
    LET keys == {email, dept, tags}
        vals == {JNil, Eng, Ops}
    IN  UNION {[ks -> vals] : ks \in SUBSET keys}

InitDiscover ==
    /\ pc = "discover"
    /\ passes = 0
    /\ file = FileEmpty
    /\ modTime = 1
    /\ edits = 0
    /\ fileProvider = NewFileProvider
    /\ users \in SeqsUpTo(DiscoverRecords, MaxLen)
    /\ registered = FALSE
    /\ remote = EmptyMap
    /\ nextId = 1
    /\ stored = EmptyMap
    /\ kvM = EmptyMap
    /\ kvO = EmptyMap
    /\ kvLast = 0
    /\ cache = NewFieldCache
    /\ fieldMapping = EmptyMap
    /\ todo = {}
    /\ userIdx = 1
    /\ hist = InitHist
    /\ pure = [done |-> FALSE, fields |-> EmptyMap]

DiscoverCall ==
    /\ pc = "discover"
    /\ ~pure.done
    /\ pure' = [done |-> TRUE, fields |-> discoverFieldsScan(users, 1, EmptyMap)]
    /\ UNCHANGED <<pc, passes, file, modTime, edits, fileProvider, users,
                   registered, remote, nextId, stored, kvM, kvO, kvLast, cache,
                   fieldMapping, todo, userIdx, hist>>

SpecDiscover == InitDiscover /\ [][DiscoverCall]_vars

\* ------------------------------------------------------------------------
\* inferFieldType applied on its own to lists, to strings around the date
\* pattern, to other strings, to a number and to nil
\* ------------------------------------------------------------------------

InferSamples ==
    LET years  == {<<"2", "0", "2", "4">>, <<"2", "0", "a", "4">>, <<"2", "0", "2">>}
        months == {<<"0", "0">>, <<"0", "1">>, <<"0", "9">>, <<"1", "0">>,
                   <<"1", "2">>, <<"1", "3">>, <<"2", "0">>, <<"1">>}
        days   == {<<"0", "0">>, <<"0", "1">>, <<"0", "9">>, <<"1", "0">>,
                   <<"2", "9">>, <<"3", "0">>, <<"3", "1">>, <<"3", "2">>,
                   <<"4", "0">>, <<"1">>}
        seps   == {<<"-">>, <<"/">>}
        tails  == {<< >>, <<"Z">>}
    IN  {JStr(y \o s \o m \o s \o d \o e) :
            y \in years, m \in months, d \in days, s \in seps, e \in tails}
        \cup {JStr(<< >>), Eng, JNum(<<"7">>), JNil,
              JList(<< >>), JList(<<Item(<<"X">>)>>),
              JList(<<Item(<<"X">>), NumItem(<<"7">>)>>),
              JList(<<Item(<<"2", "0", "2", "4", "-", "0", "1", "-", "1", "5">>)>>)}

InitInfer ==
    /\ pc = "infer"
    /\ passes = 0
    /\ file = FileEmpty
    /\ modTime = 1
    /\ edits = 0
    /\ fileProvider = NewFileProvider
    /\ users = << >>
    /\ registered = FALSE
    /\ remote = EmptyMap
    /\ nextId = 1
    /\ stored = EmptyMap
    /\ kvM = EmptyMap
    /\ kvO = EmptyMap
    /\ kvLast = 0
    /\ cache = NewFieldCache
    /\ fieldMapping = EmptyMap
    /\ todo = {}
    /\ userIdx = 1
    /\ hist = InitHist
    /\ \E v \in InferSamples : pure = [done |-> FALSE, value |-> v, type |-> "none"]

InferCall ==
    /\ pc = "infer"
    /\ ~pure.done
    /\ pure' = [pure EXCEPT !.done = TRUE, !.type = inferFieldType(pure.value)]
    /\ UNCHANGED <<pc, passes, file, modTime, edits, fileProvider, users,
                   registered, remote, nextId, stored, kvM, kvO, kvLast, cache,
                   fieldMapping, todo, userIdx, hist>>

SpecInfer == InitInfer /\ [][InferCall]_vars

\* ------------------------------------------------------------------------
\* Properties
\* ------------------------------------------------------------------------

\* the (name, id) pairs of the well-formed entries of an option list
Pairs(options) ==
    {<<options[i].name.v, options[i].id.v>> :
        i \in {j \in DOMAIN options : /\ options[j].name.t = "string"
                                      /\ options[j].id.t = "string"}}

\* every name of a set of (name, id) pairs has one id
Functional(pairs) == \A p, q \in pairs : p[1] = q[1] => p[2] = q[2]

\* the id an option name has in the remote option list of a field
RemoteOptionID(fieldID, optionName) ==
    IF fieldID \in DOMAIN remote
       /\ \E p \in Pairs(remote[fieldID].options) : p[1] = optionName
    THEN (CHOOSE p \in Pairs(remote[fieldID].options) : p[1] = optionName)[2]
    ELSE NoId

\* C1: over all passes, whatever calls fail, a field name has at most one
\* remote ID: every ID ever passed to SaveFieldMapping for the name, the ID
\* in the persistent store and the non-empty ID in the cache are the same.
C1_MappingNeverRewritten ==
    \A n \in DOMAIN hist.written \cup DOMAIN kvM \cup DOMAIN cache.fieldMappings :
        Cardinality(Lookup(hist.written, n, {})
                    \cup (IF n \in DOMAIN kvM THEN {kvM[n]} ELSE {})
                    \cup ({Lookup(cache.fieldMappings, n, NoId)} \ {NoId})) <= 1

\* C1 witness: the mapping of a name has been written in two passes (one
\* iteration writes it at most twice) and is in the persistent store
C1_Witness ==
    /\ passes >= 1
    /\ \E n \in DOMAIN hist.saves : hist.saves[n] >= 3 /\ n \in DOMAIN kvM

\* C2: every step keeps every remote field and every (option name, option
\* ID) pair of its option list, keeps every pair of every persisted option
\* map, and leaves each option name of a field with a single ID.
C2_OptionsAppendOnly ==
    [][ /\ \A i \in DOMAIN remote :
              /\ i \in DOMAIN remote'
              /\ Pairs(remote[i].options) \subseteq Pairs(remote'[i].options)
              /\ Functional(Pairs(remote'[i].options))
        /\ \A n \in DOMAIN kvO :
              /\ n \in DOMAIN kvO'
              /\ kvO[n] \subseteq kvO'[n]
              /\ Functional(kvO'[n]) ]_vars

\* C2 witness: a later pass has appended an option to a field that had
\* two, remotely and in the persisted map
C2_Witness ==
    /\ passes >= 1
    /\ \E i \in DOMAIN remote : Len(remote[i].options) >= 3
    /\ \E n \in DOMAIN kvO : Cardinality(kvO[n]) >= 3

\* C3: a pass that ends after fetching and schema synchronisation succeeded
\* has saved the last sync time, and a pass that ends on a fetch or group
\* error has not.
C3_WatermarkWhenSucceeded ==
    pc = "idle" /\ passes > 0 =>
        /\ hist.result = "completed" => kvLast = passes
        /\ hist.result \in {"fetchError", "groupError"} => kvLast # passes

\* C4: a pass whose fetch returns no records saves the last sync time and
\* makes no schema call, no cache lookup, no identity lookup and no upsert.
C4_EmptyBatchAdvancesWatermark ==
    pc = "idle" /\ hist.result = "empty" =>
        /\ kvLast = passes
        /\ hist.schemaMade = 0
        /\ hist.fidCalls = EmptyMap
        /\ hist.outcome = "none"

\* C5: in a pass without a failed call, once SyncFields has returned, every
\* non-empty option name observed for a discovered list-valued field is in
\* the remote option list of the field's mapped ID and GetOptionID resolves
\* it to that non-empty ID.
C5_ObservedOptionsResolve ==
    pc = "users" /\ ~hist.failed =>
        \A n \in DOMAIN discoverFields(users) :
            discoverFields(users)[n].t = "list" =>
                \A o \in optionsSet(users, n) :
                    /\ n \in DOMAIN fieldMapping
                    /\ RemoteOptionID(fieldMapping[n], o) # NoId
                    /\ GetOptionID(cache, kvO, n, o, FALSE).id
                          = RemoteOptionID(fieldMapping[n], o)

\* C6: no value record built for a user carries an empty field ID.
C6_NoValueWithoutFieldID ==
    \A v \in hist.built : v.FieldID # NoId

\* C7: the result of mergeOptions contains every malformed existing entry
\* and its length is len(existing) + added count.
C7_MalformedKept ==
    pure.done =>
        /\ \A i \in DOMAIN pure.existing :
              (pure.existing[i].name.t # "string" \/ pure.existing[i].id.t # "string")
                 => pure.existing[i] \in Range(pure.merged)
        /\ Len(pure.merged) = Len(pure.existing) + pure.newCount

\* C8: value synchronisation is not entered in a pass in which SyncFields
\* made remote schema calls and every one of them failed.
C8_SchemaUnreachableAborts ==
    ~(pc = "users" /\ hist.schemaMade > 0 /\ hist.schemaOk = 0)

\* C9: no pass obtains a non-empty batch from a data file that has not
\* been modified since the previous successful read.
C9_UnchangedSourceEmptyBatch ==
    ~hist.refetched

C11_FailedSaveStaysCached ==
    \A n \in DOMAIN pure.saved :
        pure.saved[n].failed =>
            /\ pure.saved[n].err
            /\ \A getErr \in BOOLEAN :
                  /\ GetFieldID(cache, kvM, n, getErr).id = pure.saved[n].id
                  /\ ~GetFieldID(cache, kvM, n, getErr).err
                  /\ ~GetFieldID(cache, kvM, n, getErr).read
            /\ (pure.op = "GetFieldID" /\ pure.name = n) =>
                  pure.id = pure.saved[n].id /\ ~pure.err /\ ~pure.read

\* C11 witness: GetFieldID has just answered from memory with an ID whose
\* store write failed and that the store does not hold
C11_Witness ==
    /\ pure.op = "GetFieldID"
    /\ pure.name \in DOMAIN pure.saved
    /\ pure.saved[pure.name].failed
    /\ pure.id = pure.saved[pure.name].id
    /\ Lookup(kvM, pure.name, NoId) # pure.id

\* the creation of the field failed in its SyncFields iteration of this pass:
\* createPropertyField / createMultiselectFieldWithOptions returned an error
CreateFailed(n) ==
    /\ n \in DOMAIN hist.steps
    /\ hist.steps[n].failed \cap {"create", "kvSetMap"} # {}

\* the remote fields with the display name derived from n and the type
\* inferred from its sample value
Matches(n) ==
    {i \in DOMAIN remote :
        /\ remote[i].Name = toDisplayName(n)
        /\ remote[i].Type = inferFieldType(discoverFields(users)[n])}

\* C12: when the creation of a field fails, SyncFields searches the remote
\* fields for the derived display name and the inferred type. If the search
\* finds one, its ID is saved through the cache and is the field's entry of
\* the returned mapping, and for a multiselect field the observed options
\* are merged into the remote option list (unless reading or updating the
\* field failed). If the search fails or finds none the field has no entry,
\* and the loop goes on with the remaining fields.
C12_CreateFailureFallsBack ==
    pc \in {"fields", "users"} =>
        \A n \in DOMAIN hist.steps :
            CreateFailed(n) =>
                /\ "search" \in hist.steps[n].made
                /\ IF "search" \in hist.steps[n].failed \/ Matches(n) = {}
                   THEN n \notin DOMAIN fieldMapping
                   ELSE /\ n \in DOMAIN fieldMapping
                        /\ fieldMapping[n] \in Matches(n)
                        /\ <<n, fieldMapping[n]>> \in hist.steps[n].saved
                        /\ "kvSetMap2" \in hist.steps[n].made
                        /\ Lookup(cache.fieldMappings, n, NoId) = fieldMapping[n]
                        /\ (/\ remote[fieldMapping[n]].Type = PropertyFieldTypeMultiselect
                            /\ hist.steps[n].failed \cap {"get", "update"} = {})
                           => \A o \in optionsSet(users, n) :
                                 RemoteOptionID(fieldMapping[n], o) # NoId
                /\ todo \cap DOMAIN hist.steps = {}

\* a multiselect field whose creation failed was found by the search and
\* got a new option
C12_Witness ==
    /\ pc = "users"
    /\ \E n \in DOMAIN hist.steps :
          /\ "create" \in hist.steps[n].failed
          /\ n \in DOMAIN fieldMapping
          /\ "update" \in hist.steps[n].made \ hist.steps[n].failed

\* how the SyncFields iteration of field n ended in this pass: found through
\* the cache, created, recovered by the fallback search, or failed
FieldOutcome(n) ==
    IF "create" \notin hist.steps[n].made THEN "existing"
    ELSE IF ~CreateFailed(n) THEN "created"
    ELSE IF "search" \notin hist.steps[n].failed /\ Matches(n) # {} THEN "recovered"
    ELSE "failed"

HasEmail(userAttrs) ==
    /\ email \in DOMAIN userAttrs
    /\ userAttrs[email].t = "string"
    /\ userAttrs[email].s # << >>

GetByEmailCall == <<"lookup", << >>>>

UpsertCall == <<"upsert", << >>>>

\* C14: the loop of SyncUsers gives every record its iteration, in order,
\* whatever happened to the records before it: a record without a usable
\* email, one whose user is not found and one whose upsert fails are skipped,
\* and every record whose user was found and for which at least one value
\* was built gets its UpsertPropertyValues call for that user. SyncUsers
\* ends without an error: the pass is logged as completed.
C14_SkippedRecordLeavesOthers ==
    /\ pc = "users" =>
          /\ Len(hist.userLog) = userIdx - 1
          /\ \A i \in DOMAIN hist.userLog :
                /\ hist.userLog[i].outcome = "noEmail" <=> ~HasEmail(users[i])
                /\ hist.userLog[i].outcome = "userNotFound"
                      <=> GetByEmailCall \in hist.userLog[i].failed
                /\ (/\ HasEmail(users[i])
                    /\ users[i][email].s \in DOMAIN Directory
                    /\ GetByEmailCall \in hist.userLog[i].made \ hist.userLog[i].failed
                    /\ hist.userLog[i].built # {})
                   => /\ UpsertCall \in hist.userLog[i].made
                      /\ Len(hist.userLog[i].upserts) = 1
                      /\ hist.userLog[i].upserts[1].userID =
                            Directory[users[i][email].s]
                      /\ hist.userLog[i].outcome \in {"synced", "upsertFailed"}
    /\ (pc = "idle" /\ hist.userLog # << >>) => hist.result = "completed"

\* a pass has completed in which a record was skipped and a later record
\* was written
C14_Witness ==
    /\ pc = "idle"
    /\ hist.result = "completed"
    /\ \E i, j \in DOMAIN hist.userLog :
          /\ i < j
          /\ hist.userLog[i].outcome \in {"noEmail", "userNotFound", "upsertFailed"}
          /\ hist.userLog[j].outcome = "synced"

\* C15: in one iteration of SyncUsers whose user was found, no
\* UpsertPropertyValues call is made when no value was built, and otherwise
\* exactly one call is made, for that user and with all the values built;
\* when the call succeeds the server holds each of them that names a field.
\* An iteration whose user was not found makes no call.
C15_OneUpsertPerUser ==
    pc = "users" =>
        \A i \in DOMAIN hist.userLog :
            /\ GetByEmailCall \notin hist.userLog[i].made \ hist.userLog[i].failed
                  => hist.userLog[i].upserts = << >>
            /\ hist.userLog[i].built = {}
                  => /\ hist.userLog[i].upserts = << >>
                     /\ UpsertCall \notin hist.userLog[i].made
            /\ hist.userLog[i].built # {}
                  => /\ Len(hist.userLog[i].upserts) = 1
                     /\ hist.userLog[i].upserts[1].values = hist.userLog[i].built
                     /\ hist.userLog[i].upserts[1].userID = Directory[users[i][email].s]
                     /\ UpsertCall \in hist.userLog[i].made
            /\ hist.userLog[i].outcome = "synced"
                  => \A v \in hist.userLog[i].built :
                        v.FieldID # NoId
                           => Lookup(stored, <<Directory[users[i][email].s], v.FieldID>>,
                                     JNil) = v.Value

\* an iteration built two values and wrote them in its one call
C15_Witness ==
    /\ pc = "users"
    /\ \E i \in DOMAIN hist.userLog :
          /\ hist.userLog[i].outcome = "synced"
          /\ Cardinality(hist.userLog[i].built) >= 2

\* C16: when GetUserAttributes fails, the pass ends there: runSync returns
\* without a group or schema call, without a user lookup or an upsert, and
\* the remote fields, the stored values, the persistent mappings and the
\* last-sync time are what they were before the pass.
C16_FetchErrorAbortsPass ==
    [][(pc = "idle" /\ edits' = edits /\ hist'.fetch # "none")
         => /\ pc' = "idle"
            /\ passes' = passes + 1
            /\ hist'.result = "fetchError"
            /\ hist'.schemaMade = 0
            /\ hist'.steps = EmptyMap
            /\ hist'.userLog = << >>
            /\ hist'.readMod = hist.readMod
            /\ UNCHANGED <<registered, remote, nextId, stored, kvM, kvO, kvLast>>]_vars

\* a pass has written values and the next pass failed to read the file
C16_Witness ==
    /\ pc = "idle"
    /\ passes = 2
    /\ hist.fetch # "none"
    /\ hist.result = "fetchError"
    /\ stored # EmptyMap

\* C17: a value built from a list-valued attribute carries one option ID per
\* element of the list, in input order: every element is a string that the
\* cache resolves to that non-empty ID. No value is built from a part of
\* the list.
C17_ListAllOrNothing ==
    pc = "users" =>
        \A i \in DOMAIN hist.userLog :
            \A v \in hist.userLog[i].built :
                v.Value.kind = "array" =>
                    /\ Len(v.Value.ids) = Len(users[i][v.attr].l)
                    /\ \A k \in DOMAIN v.Value.ids :
                          /\ users[i][v.attr].l[k].t = "string"
                          /\ v.Value.ids[k] # NoId
                          /\ v.Value.ids[k] =
                                GetOptionID(cache, kvO, v.attr,
                                            users[i][v.attr].l[k].s, FALSE).id

\* the attribute names of the data files
AttrNames == {dept, tags, since}

\* the attribute is absent from the record or null in it
NullOrAbsent(userAttrs, n) == n \notin DOMAIN userAttrs \/ userAttrs[n].t = "nil"

\* the server holds for (user, field) after the step what it held before
SameStoredAt(k) ==
    /\ k \in DOMAIN stored' <=> k \in DOMAIN stored
    /\ k \in DOMAIN stored => stored'[k] = stored[k]

\* C18: in the SyncUsers iteration of a record, an attribute that is null
\* in the record or absent from it gets no value built, and the value the
\* server holds for any user under that attribute's field is after the
\* iteration what it was before.
C18_NullOrAbsentWritesNothing ==
    [][(pc = "users" /\ userIdx' = userIdx + 1)
         => \A n \in AttrNames :
               NullOrAbsent(users[userIdx], n)
                  => /\ \A v \in hist'.built : v.attr # n
                     /\ GetFieldID(cache, kvM, n, FALSE).id # NoId
                           => \A uid \in Range(Directory) :
                                 SameStoredAt(<<uid, GetFieldID(cache, kvM, n, FALSE).id>>)
      ]_vars

\* the record of a user had a null attribute whose field holds a value of
\* that user from an earlier pass, and other values of the record were
\* written
C18_Witness ==
    /\ pc = "users"
    /\ hist.userLog # << >>
    /\ hist.outcome = "synced"
    /\ \E n \in DOMAIN users[userIdx - 1] :
          /\ users[userIdx - 1][n].t = "nil"
          /\ Lookup(kvM, n, NoId) # NoId
          /\ <<Directory[users[userIdx - 1][email].s], kvM[n]>> \in DOMAIN stored

\* C19: "email" is never handled as an attribute: discoverFields does not
\* return it, SyncFields has no iteration and no mapping entry for it, no
\* mapping or option map is kept for it in the cache or the store, no
\* remote field carries its display name, and no value is built for it.
C19_EmailNeverAnAttribute ==
    /\ email \notin DOMAIN discoverFields(users)
    /\ email \notin todo
    /\ email \notin DOMAIN fieldMapping
    /\ email \notin DOMAIN hist.steps
    /\ email \notin DOMAIN hist.written
    /\ email \notin DOMAIN hist.fidCalls
    /\ email \notin DOMAIN cache.fieldMappings \cup DOMAIN cache.fieldOptions
    /\ email \notin DOMAIN kvM \cup DOMAIN kvO
    /\ \A i \in DOMAIN remote : remote[i].Name # toDisplayName(email)
    /\ \A i \in DOMAIN hist.userLog :
          \A v \in hist.userLog[i].built : v.attr # email

\* SyncFields and SyncUsers have handled a batch whose records carry
\* "email": fields were created and a user's values were written
C19_Witness ==
    /\ pc = "users"
    /\ \E i \in DOMAIN users : email \in DOMAIN users[i]
    /\ DOMAIN fieldMapping # {}
    /\ DOMAIN remote # {}
    /\ \E i \in DOMAIN hist.userLog : hist.userLog[i].outcome = "synced"

\* C20: no step changes the type of a remote field that exists: the field
\* stays, with the type it was created with, whatever type the sample of
\* the current batch has and whatever is done to its options.
C20_ExistingTypeKept ==
    [][\A i \in DOMAIN remote :
          /\ i \in DOMAIN remote'
          /\ remote'[i].Type = remote[i].Type]_vars

\* a field created as text in an earlier pass has been given options by a
\* pass whose sample for it is a list, and is still a text field
C20_Witness ==
    /\ passes >= 1
    /\ pc \in {"fields", "users"}
    /\ \E n \in DOMAIN fieldMapping :
          /\ discoverFields(users)[n].t = "list"
          /\ fieldMapping[n] \in DOMAIN remote
          /\ remote[fieldMapping[n]].Type = PropertyFieldTypeText
          /\ remote[fieldMapping[n]].hasOptions

\* the field of the SyncFields iteration taken by the step
Stepped(n) == pc = "fields" /\ n \in todo /\ n \notin todo'

\* the iteration found the field through the cache and its sample is a list
ExistingMultiselectStep(n) ==
    /\ Stepped(n)
    /\ "create" \notin hist'.steps[n].made
    /\ discoverFields(users)[n].t = "list"

\* C21: in the SyncFields iteration of an existing field with a list sample,
\* when every option name observed in the batch is already in the field's
\* remote option list, no UpdatePropertyField call is made, no option map
\* is saved through the cache, and the remote fields, the cache's option
\* maps and the stored option maps are after the iteration what they were.
C21_NothingAddedNoUpdate ==
    [][\A n \in todo :
          (/\ ExistingMultiselectStep(n)
           /\ \A o \in optionsSet(users, n) :
                 RemoteOptionID(fieldMapping'[n], o) # NoId)
          => /\ "update" \notin hist'.steps[n].made
             /\ "kvSetOpt" \notin hist'.steps[n].made
             /\ n \notin hist'.optSaved
             /\ remote' = remote
             /\ kvO' = kvO
             /\ cache'.fieldOptions = cache.fieldOptions]_vars

\* an existing multiselect field was read, the batch had options for it
\* and all of them were known: no update was made
C21_Witness ==
    /\ pc \in {"fields", "users"}
    /\ \E n \in DOMAIN hist.steps :
          /\ "create" \notin hist.steps[n].made
          /\ "get" \in hist.steps[n].made \ hist.steps[n].failed
          /\ "update" \notin hist.steps[n].made
          /\ optionsSet(users, n) # {}
          /\ remote[fieldMapping[n]].Type = PropertyFieldTypeMultiselect

\* the option names observed in the batch that the field's remote option
\* list does not have before the step
MissingOptions(n, fieldID) ==
    {o \in optionsSet(users, n) : RemoteOptionID(fieldID, o) = NoId}

\* the entries the step appended to the option list of a remote field
Appended(fieldID) ==
    SubSeq(remote'[fieldID].options, Len(remote[fieldID].options) + 1,
           Len(remote'[fieldID].options))

\* C22: in the SyncFields iteration of an existing field with a list sample
\* whose batch has option names the remote option list lacks, once the field
\* has been read UpdatePropertyField is called; when it succeeds the remote
\* list is the former list, entries and IDs unchanged, followed by one entry
\* per missing name with an ID not handed out before, and the name -> ID map
\* of the merged list is saved through the cache (and is in the store unless
\* that write failed).
C22_NewOptionsAppended ==
    [][\A n \in todo :
          (/\ ExistingMultiselectStep(n)
           /\ "get" \in hist'.steps[n].made \ hist'.steps[n].failed
           /\ MissingOptions(n, fieldMapping'[n]) # {})
          => /\ "update" \in hist'.steps[n].made
             /\ "update" \notin hist'.steps[n].failed
                  => /\ SubSeq(remote'[fieldMapping'[n]].options, 1,
                               Len(remote[fieldMapping'[n]].options))
                           = remote[fieldMapping'[n]].options
                     /\ {e.name.v : e \in Range(Appended(fieldMapping'[n]))}
                           = MissingOptions(n, fieldMapping'[n])
                     /\ Len(Appended(fieldMapping'[n]))
                           = Cardinality(MissingOptions(n, fieldMapping'[n]))
                     /\ \A e \in Range(Appended(fieldMapping'[n])) :
                           e.id.v >= nextId /\ e.id.v < nextId'
                     /\ Cardinality({e.id.v : e \in Range(Appended(fieldMapping'[n]))})
                           = Len(Appended(fieldMapping'[n]))
                     /\ "kvSetOpt" \in hist'.steps[n].made
                     /\ cache'.fieldOptions[n]
                           = optionsMapOf(remote'[fieldMapping'[n]].options)
                     /\ "kvSetOpt" \notin hist'.steps[n].failed
                           => kvO'[n] = Marshal(optionsMapOf(
                                            remote'[fieldMapping'[n]].options))]_vars

\* a later pass observed Y and Z (and X) for a multiselect field created
\* with X and Y: the update appended Z alone
C22_Witness ==
    /\ passes >= 1
    /\ pc \in {"fields", "users"}
    /\ \E n \in DOMAIN hist.steps :
          /\ "create" \notin hist.steps[n].made
          /\ "update" \in hist.steps[n].made \ hist.steps[n].failed
          /\ remote[fieldMapping[n]].Type = PropertyFieldTypeMultiselect
          /\ Len(remote[fieldMapping[n]].options) = 3
          /\ [i \in 1..3 |-> remote[fieldMapping[n]].options[i].name.v]
                \in {<<<<"X">>, <<"Y">>, <<"Z">>>>, <<<<"Y">>, <<"X">>, <<"Z">>>>}

\* the remote field the step created
CreatedBy(n) == CHOOSE i \in DOMAIN remote' \ DOMAIN remote : TRUE

\* C23: in the SyncFields iteration of a discovered field that has no
\* mapping, the field is created remotely under its display name with the
\* type inferred from its sample, a multiselect field in the one create call
\* with one option per name observed for it in the batch, each with a new
\* ID; when the create call succeeds the field mapping and, for a
\* multiselect field, the option name -> ID map are saved through the cache.
C23_CreatedAndWrittenThrough ==
    [][\A n \in todo :
          (Stepped(n) /\ GetFieldID(cache, kvM, n, FALSE).id = NoId)
          => /\ "create" \in hist'.steps[n].made
             /\ "create" \notin hist'.steps[n].failed
                  => /\ Cardinality(DOMAIN remote' \ DOMAIN remote) = 1
                     /\ remote'[CreatedBy(n)].Name = toDisplayName(n)
                     /\ remote'[CreatedBy(n)].Type
                           = inferFieldType(discoverFields(users)[n])
                     /\ "kvSetMap" \in hist'.steps[n].made
                     /\ cache'.fieldMappings[n] = CreatedBy(n)
                     /\ discoverFields(users)[n].t = "list"
                           => /\ {e.name.v : e \in Range(remote'[CreatedBy(n)].options)}
                                    = optionsSet(users, n)
                              /\ Len(remote'[CreatedBy(n)].options)
                                    = Cardinality(optionsSet(users, n))
                              /\ Cardinality({e.id.v :
                                      e \in Range(remote'[CreatedBy(n)].options)})
                                    = Len(remote'[CreatedBy(n)].options)
                              /\ \A e \in Range(remote'[CreatedBy(n)].options) :
                                    e.id.v >= nextId /\ e.id.v < nextId'
                              /\ "kvSetOpt" \in hist'.steps[n].made
                              /\ n \in DOMAIN cache'.fieldOptions
                              /\ cache'.fieldOptions[n]
                                    = optionsMapOf(remote'[CreatedBy(n)].options)]_vars

\* C24: mergeOptions is idempotent: called on its own result M with the same
\* new values, it adds nothing and returns a list identical to M.
C24_MergeIdempotent ==
    pure.again =>
        /\ pure.newCount2 = 0
        /\ pure.merged2 = pure.merged

\* the second call followed a first call that added an option to a list
\* with a malformed entry
C24_Witness ==
    /\ pure.again
    /\ pure.newCount >= 1
    /\ Len(pure.merged) < Len(pure.existing) + pure.newCount
    /\ pure.merged2 = pure.merged

\* the entries of the result of mergeOptions after the first Len(existing)
AppendedByMerge == SubSeq(pure.merged, Len(pure.existing) + 1, Len(pure.merged))

\* the index of the first occurrence of a value in newValues
FirstIndex(v) ==
    CHOOSE i \in DOMAIN pure.newValues :
        /\ pure.newValues[i] = v
        /\ \A j \in DOMAIN pure.newValues : pure.newValues[j] = v => i <= j

\* C25: the result of mergeOptions is the existing entries, unchanged and in
\* their order, followed by one entry with a new ID for each distinct name
\* of newValues that no existing entry has, in the order of first occurrence
\* in newValues; the count returned is the number of entries appended.
C25_MergeOutputShape ==
    pure.done =>
        /\ Len(pure.merged) >= Len(pure.existing)
        /\ SubSeq(pure.merged, 1, Len(pure.existing)) = pure.existing
        /\ pure.newCount = Len(AppendedByMerge)
        /\ {e.name.v : e \in Range(AppendedByMerge)}
              = Range(pure.newValues) \ {e.name.v : e \in Range(pure.existing)}
        /\ \A i, j \in DOMAIN AppendedByMerge :
              i < j => /\ AppendedByMerge[i].id.v # AppendedByMerge[j].id.v
                       /\ FirstIndex(AppendedByMerge[i].name.v)
                             < FirstIndex(AppendedByMerge[j].name.v)
        /\ \A e \in Range(AppendedByMerge) :
              /\ e.id.t = "string"
              /\ e.id.v >= FreshId
              /\ e.id.v \notin {x.id.v : x \in Range(pure.existing)}

\* C26: after SaveFieldOptions(field, m), whatever the caller does to its
\* map m afterwards, GetOptionID(field, o) on the same cache returns for
\* every option name what m held when it was saved.
C26_SavedOptionsAreACopy ==
    \A n \in DOMAIN pure.saved :
        /\ \A o \in CacheOptions, getErr \in BOOLEAN :
              GetOptionID(Deref(pure.heap, cache), kvO, n, o, getErr).id
                 = Lookup(pure.saved[n], o, NoId)
        /\ (pure.op = "GetOptionID" /\ pure.name = n)
              => pure.id = Lookup(pure.saved[n], pure.option, NoId)

\* GetOptionID was called for a saved field and an option whose entry the
\* caller has changed, added or removed in its map since
C26_Witness ==
    /\ pure.op = "GetOptionID"
    /\ pure.name \in DOMAIN pure.saved
    /\ pure.id = Lookup(pure.saved[pure.name], pure.option, NoId)
    /\ Lookup(pure.heap[CallerRef], pure.option, NoId) # pure.id
\* C27: GetFieldID and GetOptionID answer a read of the backing store that
\* finds nothing with the empty ID and no error, and they return an error
\* only when the read of the backing store itself failed (then with the
\* empty ID; and a failed read is always reported).
C27_NotFoundIsNoError ==
    pure.op \in {"GetFieldID", "GetOptionID"} =>
        /\ (pure.read /\ ~pure.storeErr /\ ~pure.found)
               => (pure.id = NoId /\ ~pure.err)
        /\ pure.err => (pure.read /\ pure.storeErr /\ pure.id = NoId)
        /\ (pure.read /\ pure.storeErr) => pure.err

C27_Witness ==
    /\ pure.op = "GetOptionID"
    /\ pure.read /\ ~pure.storeErr /\ ~pure.found
    /\ pure.id = NoId /\ ~pure.err
    /\ pure.failedBefore
    /\ DOMAIN cache.fieldMappings # {}
\* a GetFieldID call of this step read the persistent store
\* (Client.GetFieldMapping) for field n
ReadMapping(n) ==
    /\ pure'.op = "GetFieldID"
    /\ pure'.name = n
    /\ pure'.read

\* C28: GetFieldMapping of the persistent store returns the empty ID and no
\* error when no mapping is stored for the name, and an error when the
\* key-value operation fails: a read that comes back empty for a name whose
\* mapping is stored is reported as an error, not as "not found".
C28_StoreFailureIsAnError ==
    [][\A n \in CacheNames :
          ReadMapping(n) =>
              /\ n \notin DOMAIN kvM => (pure'.id = NoId /\ ~pure'.err)
              /\ (n \in DOMAIN kvM /\ pure'.id = NoId) => pure'.err]_vars
\* C29: a call of GetUserAttributes that succeeds returns all records of the
\* file when no earlier call has read the file successfully; afterwards it
\* returns nothing when the file's modification time is not later than at
\* the last successful read, and all records again when it is later.
C29_ReturnsOnlyWhenModified ==
    (pure.op = "GetUserAttributes" /\ ~pure.err) =>
        IF pure.prevOk = 0 THEN pure.users = file
        ELSE IF modTime > pure.prevOk THEN pure.users = file
        ELSE pure.users = << >>

C29_Witness ==
    /\ pure.op = "GetUserAttributes" /\ ~pure.err
    /\ pure.prevOk # 0
    /\ modTime > pure.prevOk
    /\ pure.skipped
    /\ pure.users = file
    /\ file # << >>
\* the UpdatePropertyField call of field n's iteration failed in this step
UpdateFailed(n) ==
    /\ Stepped(n)
    /\ "update" \in hist'.steps[n].failed

\* C30: when the remote update of a multiselect field's options fails, the
\* option maps of the cache and of the persistent store are left as they
\* were, the field is in the mapping SyncFields returns, and SyncFields goes
\* on with the remaining fields.
C30_UpdateFailureKeepsOptions ==
    [][\A n \in AttrNames :
          UpdateFailed(n) =>
              /\ cache'.fieldOptions = cache.fieldOptions
              /\ kvO' = kvO
              /\ n \in DOMAIN fieldMapping'
              /\ fieldMapping'[n] # NoId
              /\ pc' = "fields"
              /\ todo' = todo \ {n}]_vars

C30_Witness ==
    /\ pc = "users"
    /\ \E n \in DOMAIN hist.steps :
          /\ "update" \in hist.steps[n].failed
          /\ n \in DOMAIN kvO
          /\ kvO[n] # {}
          /\ n \in DOMAIN fieldMapping
\* the positions runSync can move to from position p in one step
NextPositions(p) ==
    CASE p = "idle"   -> {"idle", "group"}
      [] p = "group"  -> {"idle", "fields"}
      [] p = "fields" -> {"fields", "users"}
      [] p = "users"  -> {"users", "idle"}

\* C31: a pass goes from idle through the fetch to schema synchronization,
\* then to value synchronization, then back to idle (or straight back to
\* idle when it aborts); schema calls are made only during schema
\* synchronization, which is entered once per pass, and every iteration of
\* SyncUsers, hence every upsert, comes after SyncFields has processed all
\* discovered fields.
C31_PassOrder ==
    [][/\ pc' \in NextPositions(pc)
       /\ hist'.schemaMade > hist.schemaMade => (pc = "fields" /\ pc' = "fields")
       /\ (remote' # remote \/ kvM' # kvM \/ kvO' # kvO) => pc = "fields"
       /\ (pc = "fields" /\ pc' = "users") => todo = {}
       /\ (stored' # stored \/ Len(hist'.userLog) > Len(hist.userLog))
             => (pc = "users" /\ todo = {}
                 /\ DOMAIN hist.steps = DOMAIN discoverFields(users))]_vars

C31_Witness ==
    /\ pc = "idle"
    /\ hist.result = "completed"
    /\ hist.schemaMade > 0
    /\ Cardinality(DOMAIN hist.steps) >= 2
    /\ \E i \in DOMAIN hist.userLog : Len(hist.userLog[i].upserts) > 0
\* C32: within one pass no remote call is repeated: the iteration of a
\* discovered field makes at most one create call and at most one update
\* call (and no other remote schema call twice), and the iteration of a
\* user record makes at most one identity lookup and at most one upsert
\* call, whether or not the call failed.
C32_NoRetryWithinPass ==
    /\ \A n \in DOMAIN hist.steps : hist.steps[n].again = {}
    /\ \A i \in DOMAIN hist.userLog :
          /\ hist.userLog[i].again = {}
          /\ Len(hist.userLog[i].upserts) <= 1

C32_Witness ==
    /\ \E n \in DOMAIN hist.steps : "create" \in hist.steps[n].failed
    /\ \E i \in DOMAIN hist.userLog :
          /\ <<"upsert", << >>>> \in hist.userLog[i].failed
          /\ Len(hist.userLog[i].upserts) = 1
\* record i of the batch carries a non-null value for n
Carries(us, i, n) == n \in DOMAIN us[i] /\ us[i][n] # JNil

\* C33: discoverFields returns exactly the names other than email that have
\* a non-null value in some record of the batch, each with the first
\* non-null value in record order; a name that is null wherever it occurs
\* is not returned.  The map used by SyncFields is that same map.
C33_DiscoverFirstNonNull ==
    pure.done =>
        /\ DOMAIN pure.fields =
               {n \in (UNION {DOMAIN users[i] : i \in DOMAIN users}) \ {email} :
                   \E i \in DOMAIN users : Carries(users, i, n)}
        /\ \A n \in DOMAIN pure.fields :
              \E i \in DOMAIN users :
                  /\ Carries(users, i, n)
                  /\ \A j \in 1..(i - 1) : ~Carries(users, j, n)
                  /\ pure.fields[n] = users[i][n]
        /\ pure.fields = discoverFields(users)

C33_Witness ==
    /\ pure.done
    /\ Len(users) = 2
    /\ email \in DOMAIN users[1]
    /\ dept \in DOMAIN users[1] /\ users[1][dept] = JNil
    /\ dept \in DOMAIN pure.fields /\ pure.fields[dept] = Ops
    /\ tags \in DOMAIN users[1] /\ tags \in DOMAIN users[2]
    /\ tags \notin DOMAIN pure.fields
\* the number written by the two characters a, b (-1 when one of them is
\* not a digit)
TwoDigits(a, b) ==
    LET val(c) == CHOOSE k \in 0..9 :
                      <<"0", "1", "2", "3", "4", "5", "6", "7", "8", "9">>[k + 1] = c
    IN  IF a \in Digits /\ b \in Digits THEN 10 * val(a) + val(b) ELSE 0 - 1

\* YYYY-MM-DD: four digits, a month 01..12 and a day 01..31
IsIsoDate(v) ==
    /\ Len(v) = 10
    /\ \A i \in 1..4 : v[i] \in Digits
    /\ v[5] = "-" /\ v[8] = "-"
    /\ TwoDigits(v[6], v[7]) \in 1..12
    /\ TwoDigits(v[9], v[10]) \in 1..31

\* C34: inferFieldType gives every sample one of the three types: a list,
\* also an empty one, is a multiselect; a string in the form YYYY-MM-DD is a
\* date; every other string is text.
C34_InferTypeRules ==
    pure.done =>
        /\ pure.type \in {PropertyFieldTypeText, PropertyFieldTypeDate,
                          PropertyFieldTypeMultiselect}
        /\ pure.value.t = "list" => pure.type = PropertyFieldTypeMultiselect
        /\ (pure.value.t = "string" /\ IsIsoDate(pure.value.s))
              => pure.type = PropertyFieldTypeDate
        /\ (pure.value.t = "string" /\ ~IsIsoDate(pure.value.s))
              => pure.type = PropertyFieldTypeText

C34_Witness ==
    /\ pure.done
    /\ pure.value = JList(<< >>)
    /\ pure.type = PropertyFieldTypeMultiselect
\* SyncUsers has processed every record of a pass in which no call failed,
\* over a data file unchanged since an earlier pass in which a call failed
RecoveryPassDone ==
    /\ pc = "users"
    /\ userIdx > Len(users)
    /\ passes >= 1
    /\ edits = 0
    /\ ~hist.failed
    /\ hist.failures > 0

\* the upsert of record i carries a value for attribute n under the mapped
\* field ID
UpsertedAttr(i, n) ==
    /\ Len(hist.userLog[i].upserts) = 1
    /\ \E v \in hist.userLog[i].upserts[1].values :
          v.attr = n /\ v.FieldID = fieldMapping[n]

\* C35: a pass without failures that follows a pass with failures over the
\* same batch ends with every discovered field in the mapping and with
\* every string and list attribute of every user known to the server
\* upserted.
C35_RecoveryAfterFailure ==
    RecoveryPassDone =>
        /\ \A n \in DOMAIN discoverFields(users) :
              n \in DOMAIN fieldMapping /\ fieldMapping[n] # NoId
        /\ \A i \in DOMAIN users :
              (HasEmail(users[i]) /\ users[i][email].s \in DOMAIN Directory) =>
                  \A n \in DOMAIN users[i] \ {email} :
                      users[i][n].t \in {"string", "list"} => UpsertedAttr(i, n)
\* the iteration of field n in this step created a remote field and the
\* write of its mapping to the persistent store failed
CreatedButNotPersisted(n) ==
    /\ Stepped(n)
    /\ "create" \in hist'.steps[n].made \ hist'.steps[n].failed
    /\ "kvSetMap" \in hist'.steps[n].failed

\* C36: when the remote create succeeded and persisting the mapping failed,
\* the created field's ID is in the mapping SyncFields returns, it is what
\* GetFieldID answers for the rest of the pass, and the iteration created
\* one remote field only.
C36_CreatedFieldKeptOnSaveFailure ==
    [][\A n \in AttrNames :
          CreatedButNotPersisted(n) =>
              /\ Cardinality(DOMAIN remote' \ DOMAIN remote) = 1
              /\ n \in DOMAIN fieldMapping'
              /\ fieldMapping'[n] = CreatedBy(n)
              /\ GetFieldID(cache', kvM', n, FALSE).id = CreatedBy(n)]_vars
\* the iteration of field n in the current pass created a multiselect field
\* remotely and the write of its mapping to the persistent store failed
MultiselectNotPersisted(n) ==
    /\ n \in DOMAIN hist.steps
    /\ "create" \in hist.steps[n].made \ hist.steps[n].failed
    /\ "kvSetMap" \in hist.steps[n].failed
    /\ discoverFields(users)[n].t = "list"

\* C37: when a multiselect field was created remotely and persisting its
\* mapping failed, the cache resolves the field's observed options in the
\* same pass, and every record synchronised in that pass that carries a
\* list for the field has a value built for it.
C37_OptionsResolveOnSaveFailure ==
    pc = "users" =>
        \A n \in AttrNames :
            MultiselectNotPersisted(n) =>
                /\ \A o \in optionsSet(users, n) :
                      GetOptionID(cache, kvO, n, o, FALSE).id # NoId
                /\ \A i \in DOMAIN hist.userLog :
                      (hist.userLog[i].outcome = "synced"
                         /\ n \in DOMAIN users[i] /\ users[i][n].t = "list")
                        => \E v \in hist.userLog[i].built : v.attr = n
\* a pass after a completed pass, over the same data file, with no call made
\* to fail so far nor in this step
SteadyPass ==
    /\ pc \in {"group", "fields", "users"}
    /\ passes >= 1
    /\ edits = 0
    /\ hist.result = "completed"
    /\ hist'.failures = 0

\* the values of the upsert call are, field by field, what the server
\* already holds for the user
SameAsStored(call) ==
    /\ \A v \in call.values :
          /\ <<call.userID, v.FieldID>> \in DOMAIN stored
          /\ stored[<<call.userID, v.FieldID>>] = v.Value
    /\ \A k \in DOMAIN stored :
          k[1] = call.userID => \E v \in call.values : v.FieldID = k[2]

\* C38: in a pass without failures that follows a completed pass without
\* failures over the same batch, no field iteration makes a create or an
\* update call, the remote fields and the stored mappings stay as they are,
\* and every upsert carries exactly the values, field IDs and option IDs
\* the server holds for that user from the first pass.
C38_SteadyState ==
    [][SteadyPass =>
          /\ remote' = remote /\ kvM' = kvM /\ kvO' = kvO
          /\ stored' = stored
          /\ \A n \in DOMAIN hist'.steps :
                hist'.steps[n].made \cap {"create", "update"} = {}
          /\ (pc = "users" /\ userIdx' = userIdx + 1) =>
                LET it == hist'.userLog[userIdx]
                IN  /\ it.outcome = "synced" => Len(it.upserts) = 1
                    /\ \A c \in DOMAIN it.upserts : SameAsStored(it.upserts[c])]_vars

C38_Witness ==
    /\ pc = "idle"
    /\ passes = 2
    /\ edits = 0
    /\ hist.failures = 0
    /\ hist.result = "completed"
    /\ \E n \in DOMAIN hist.steps :
          /\ discoverFields(file)[n].t = "list"
          /\ hist.steps[n].made \cap {"create", "update"} = {}
    /\ \E i \in DOMAIN hist.userLog :
          /\ Len(hist.userLog[i].upserts) = 1
          /\ Cardinality(hist.userLog[i].upserts[1].values) >= 2
\* runSync starts in this step (the step from idle that leaves the data
\* file alone) after a pass that was aborted at the property group
FetchAfterAbort ==
    /\ pc = "idle"
    /\ file' = file
    /\ hist.result = "groupError"

C40_StoreRoundTrip ==
    [][/\ \A n \in AttrNames :
            (Stepped(n) /\ n \in DOMAIN kvM /\ "kvGetMap" \in hist'.steps[n].made)
               => /\ "create" \notin hist'.steps[n].made
                  /\ fieldMapping'[n] = kvM[n]
       /\ \A n \in AttrNames :
            (/\ pc = "users" /\ userIdx' = userIdx + 1
             /\ n \in DOMAIN kvO
             /\ <<"kvGetOpt", n>> \in hist'.userLog[userIdx].made)
               => /\ n \in DOMAIN cache'.fieldOptions
                  /\ Marshal(cache'.fieldOptions[n]) = kvO[n]]_vars

====
